---- MODULE Spec2Model ----
(***************************************************************************)
(* A model of the poqr repository: the NTRUEncrypt engine (ntru crate),    *)
(* the onion cell codec and channel (onion crate: messages, channel) and   *)
(* the host / relay nodes with their tables and mutexes (onion crate:      *)
(* nodes, tables, directory).                                              *)
(*                                                                         *)
(* Rust values are modelled as follows.  A Vec<i32> / Vec<u8> is a TLA+    *)
(* sequence; coeffs[i] of the source is p[i+1] here.  A Result or an       *)
(* Option is a record with a boolean field ok; a panic (assert!, unwrap    *)
(* on None / Err, index out of range, todo!()) is ok = FALSE at the level  *)
(* of a pure function and a "panicked" control state at the level of a     *)
(* thread.                                                                 *)
(*                                                                         *)
(* The module holds state machines over one set of variables, among them:  *)
(* SpecNtru (key generation, encrypt, decrypt), SpecOnion (the classical   *)
(* onion skins), SpecChan (Channel::send and Channel::recv over one        *)
(* connection) and SpecNode (host, relays, directory, tables, mutexes).    *)
(* Each leaves the variables of the others at their initial values.        *)
(***************************************************************************)
EXTENDS Integers, Sequences, FiniteSets, TLC

VARIABLES
    \* the NTRU round trip
    ntru_pc,     \* where the NTRU round trip stands
    keypair,     \* NtruKeyPair { public, private }
    plain,       \* the message handed to encrypt
    cipher,      \* the polynomial encrypt returned
    decrypted,   \* the bytes decrypt returned
    \* the classical onion skins
    skin_pc,    \* where the wrap / unwrap stands
    skin_keys,  \* Vec<RsaPrivateKey>; the public halves are derived
    skin_bytes, \* the bytes handed to add_onion_skin
    skin_enc,   \* what add_onion_skin returned
    skin_dec,   \* what remove_onion_skin returned
    \* one connection between a sending and a receiving Channel
    chan_pc,     \* where the exchange stands
    tx,          \* the sender's Channel
    rx,          \* the receiver's Channel
    connection,  \* the bytes written to the TcpStream and not yet read
    sent,        \* (id, msg) handed to Channel::send
    received,    \* the OnionPacket Channel::recv returned
    \* the host, the directory and a relay
    host_pc,       \* where the thread calling Host::create_circuit stands
    host_keys,     \* the private keys generate_onion_keys returned to it
    host_locks,    \* the host's two mutexes: circuit_table and channels
    circuit_table, \* Host.circuit_table: CircuitTable { circuits, used_circuit_ids }
    host_channels, \* Host.channels: ChannelTable, circuit id -> Channel
    directory,     \* Directory { relays, used_ports, next_relay_id }
    relays,        \* the Relay objects that run, relay id -> its state
    conns,         \* the number of TCP connections made so far
    \* one call of a function of the ntru or onion crate on its own
    call_pc,    \* "off", "start", or how the call ended
    call_args,  \* the arguments of the call
    call_ret    \* what the call returned

ntruVars == <<ntru_pc, keypair, plain, cipher, decrypted>>

onionVars == <<skin_pc, skin_keys, skin_bytes, skin_enc, skin_dec>>

chanVars == <<chan_pc, tx, rx, connection, sent, received>>

nodeVars == <<host_pc, host_keys, host_locks, circuit_table, host_channels,
              directory, relays, conns>>

callVars == <<call_pc, call_args, call_ret>>

vars == <<ntruVars, onionVars, chanVars, nodeVars, callVars>>

(***************************************************************************)
(* Parameters.  P and Q are the program's values.  The ring size N and the *)
(* weight D are scaled down from the reference 503 and 23 so that the      *)
(* polynomial arithmetic can be enumerated; they keep 2D+1 <= N and        *)
(* Q > (6D+1)P, the relations the scheme relies on.                        *)
(***************************************************************************)
N == 17
P == 3
Q == 419
D == 2

\* Inputs the model enumerates.
MaxMsgLen == 2
MaxShift == 2
MaxStride == 2

Abs(x) == IF x < 0 THEN -x ELSE x

Min(a, b) == IF a < b THEN a ELSE b

Max(a, b) == IF a > b THEN a ELSE b

Err == [ok |-> FALSE]

\* TRUE; the comparison makes TLC compute v now, as the source's eager
\* assignments do, instead of carrying it unevaluated into the next iteration
Computed(v) == v = v

(***************************************************************************)
(* INTEGER ARITHMETIC  (convolution_polynomial.rs, "INTEGER ARITHMETIC")   *)
(***************************************************************************)

\* i32::rem_euclid for a positive modulus
rem_euclid(a, m) == a % m

RECURSIVE extended_gcd_loop(_, _, _, _, _, _)
extended_gcd_loop(old_r, r, old_x, x, old_y, y) ==
    IF r = 0 THEN <<old_r, old_x, old_y>>
    ELSE LET q == old_r \div r
         IN  extended_gcd_loop(r, old_r % r, x, old_x - x * q, y, old_y - y * q)

\* extended_gcd(a, b) -> (gcd, x, y), on the absolute values of a and b
extended_gcd(a, b) == extended_gcd_loop(Abs(a), Abs(b), 1, 0, 0, 1)

\* inverse(a, m) returning the Bezout coefficient as it is, not reduced mod m
inverse_unreduced(a, m) ==
    IF a = 0 THEN Err
    ELSE LET g == extended_gcd(rem_euclid(a, m), m)
         IN  IF g[1] # 1 THEN Err
             ELSE [ok |-> TRUE, val |-> g[2]]

\* inverse(a, m) -> Result<i32, String>
inverse(a, m) ==
    IF a = 0 THEN Err
    ELSE LET g == extended_gcd(rem_euclid(a, m), m)
         IN  IF g[1] # 1 THEN Err
             ELSE [ok |-> TRUE, val |-> rem_euclid(g[2], m)]

\* center_lift with the midpoint of an even modulus lifted to -m/2
center_lift_strict(a, m) ==
    LET r == rem_euclid(a, m)
    IN  IF r < m \div 2 THEN r ELSE r - m

\* center_lift(a, m): [0, m) --> (-m/2, m/2]
center_lift(a, m) ==
    LET r == rem_euclid(a, m)
    IN  IF r <= m \div 2 THEN r ELSE r - m

(***************************************************************************)
(* CONVOLUTION POLYNOMIALS  (convolution_polynomial.rs, impl ConvPoly)     *)
(***************************************************************************)

constant(c) == <<c>>

Zeros(n) == [i \in 1..n |-> 0]

\* coeffs.get(i).copied().unwrap_or(0), i counted from 0
CoeffOr0(p, i) == IF i + 1 <= Len(p) THEN p[i + 1] ELSE 0

\* rposition(|x| x != 0): the scan from the last coefficient down
RECURSIVE rposition_nonzero(_, _)
rposition_nonzero(p, i) ==
    IF i = 0 THEN 0 ELSE IF p[i] # 0 THEN i ELSE rposition_nonzero(p, i - 1)

\* deg(&self): rposition(|x| x != 0).unwrap_or(0)
deg(p) == LET i == rposition_nonzero(p, Len(p)) IN IF i = 0 THEN 0 ELSE i - 1

is_zero(p) == \A i \in 1..Len(p) : p[i] = 0

lc(p) == p[deg(p) + 1]

\* coeffs.truncate(deg + 1)
trim(p) == IF Len(p) <= deg(p) + 1 THEN p ELSE SubSeq(p, 1, deg(p) + 1)

modulo(p, m) == trim([i \in 1..Len(p) |-> rem_euclid(p[i], m)])

ConvPoly_center_lift(p, m) == trim([i \in 1..Len(p) |-> center_lift(p[i], m)])

add(a, b) == trim([i \in 1..Max(Len(a), Len(b)) |-> CoeffOr0(a, i - 1) + CoeffOr0(b, i - 1)])

sub(a, b) == trim([i \in 1..Max(Len(a), Len(b)) |-> CoeffOr0(a, i - 1) - CoeffOr0(b, i - 1)])

\* sum of f[i] over i in lo..hi
RECURSIVE SumRange(_, _, _)
SumRange(f, lo, hi) == IF lo > hi THEN 0 ELSE f[hi] + SumRange(f, lo, hi - 1)

\* what the two nested for loops of mul leave in result.coeffs[k]: the sum of
\* a[i] * b[j] over i in 0..=deg(a), j in 0..=deg(b) with (i + j) % n = k, that
\* is over j = j0, j0 + n, ... where j0 = (k - i) mod n
mul_coeff(a, b, n, da, db, k) ==
    SumRange([i \in 0..da |->
                 LET j0 == (k - i) % n
                 IN  IF j0 > db THEN 0
                     ELSE SumRange([t \in 0..((db - j0) \div n) |->
                                       a[i + 1] * b[j0 + t * n + 1]],
                                   0, (db - j0) \div n)],
             0, da)

\* mul(&self, other, n): the product in Z[x]/(x^n - 1)
mul(a, b, n) ==
    IF is_zero(a) \/ is_zero(b) THEN constant(0)
    ELSE LET da == deg(a)
             db == deg(b)
         IN  trim([k \in 1..n |-> mul_coeff(a, b, n, da, db, k - 1)])

\* the term c * x^d
Monomial(c, d) == [i \in 1..(d + 1) |-> IF i = d + 1 THEN c ELSE 0]

RECURSIVE div_mod_loop(_, _, _, _, _, _)
\* the assignments that end one iteration of the while loop of div_mod:
\* quotient and remainder take their new values and the loop goes round
div_mod_assign(new_quotient, new_remainder, divisor, inv_lc, m, n) ==
    IF Computed(new_quotient) /\ Computed(new_remainder)
    THEN div_mod_loop(new_quotient, new_remainder, divisor, inv_lc, m, n)
    ELSE Err

\* the body of the while loop of div_mod without the term added to the
\* quotient
div_mod_body_quotient_kept(quotient, remainder, divisor, inv_lc, term, m, n) ==
    div_mod_assign(quotient,
                   modulo(sub(remainder, mul(divisor, term, n)), m),
                   divisor, inv_lc, m, n)

\* the body of the while loop of div_mod, for the term c * x^d
div_mod_body(quotient, remainder, divisor, inv_lc, term, m, n) ==
    div_mod_assign(modulo(add(quotient, term), m),
                   modulo(sub(remainder, mul(divisor, term, n)), m),
                   divisor, inv_lc, m, n)

div_mod_loop(quotient, remainder, divisor, inv_lc, m, n) ==
    IF deg(remainder) >= deg(divisor) /\ ~is_zero(remainder)
    THEN div_mod_body(quotient, remainder, divisor, inv_lc,
                      Monomial(rem_euclid(lc(remainder) * inv_lc, m),
                               deg(remainder) - deg(divisor)),
                      m, n)
    ELSE [ok |-> TRUE, q |-> quotient, r |-> remainder]

\* div_mod(&self, divisor, m, n) -> Result<(quotient, remainder), String>
div_mod(self, divisor, m, n) ==
    LET inv == inverse(lc(divisor), m)
    IN  IF ~inv.ok THEN Err
        ELSE div_mod_loop(constant(0), mul(self, constant(1), n), divisor, inv.val, m, n)

RECURSIVE ConvPoly_extended_gcd_loop(_, _, _, _, _, _, _, _)
\* one iteration of the while loop of ConvPoly::extended_gcd, given the
\* outcome qr of old_r.div_mod(&r, m, n)
ConvPoly_extended_gcd_assign(r, s, t, qr_r, new_s, new_t, m, n) ==
    IF Computed(qr_r) /\ Computed(new_s) /\ Computed(new_t)
    THEN ConvPoly_extended_gcd_loop(r, qr_r, s, new_s, t, new_t, m, n)
    ELSE Err

\* the body of the while loop of extended_gcd with s updated as t is
ConvPoly_extended_gcd_body_s_as_t(r, old_s, s, old_t, t, qr, m, n) ==
    IF ~qr.ok THEN Err
    ELSE ConvPoly_extended_gcd_assign(r, s, t, qr.r,
                                      modulo(sub(old_t, mul(t, qr.q, n)), m),
                                      modulo(sub(old_t, mul(t, qr.q, n)), m),
                                      m, n)

ConvPoly_extended_gcd_body(r, old_s, s, old_t, t, qr, m, n) ==
    IF ~qr.ok THEN Err
    ELSE ConvPoly_extended_gcd_assign(r, s, t, qr.r,
                                      modulo(sub(old_s, mul(s, qr.q, n)), m),
                                      modulo(sub(old_t, mul(t, qr.q, n)), m),
                                      m, n)

ConvPoly_extended_gcd_loop(old_r, r, old_s, s, old_t, t, m, n) ==
    IF is_zero(r) THEN [ok |-> TRUE, r |-> old_r, s |-> old_s, t |-> old_t]
    ELSE ConvPoly_extended_gcd_body(r, old_s, s, old_t, t, div_mod(old_r, r, m, n), m, n)

\* multiplication of a polynomial by the constant c, reduced mod m
scale(poly, c, m, n) == modulo(mul(poly, constant(c), n), m)

\* the normalisation that ends ConvPoly::extended_gcd: the gcd is made monic
\* when its leading coefficient has an inverse mod m
ConvPoly_extended_gcd_monic(e, inv, m, n) ==
    IF inv.ok
    THEN [ok |-> TRUE,
          r |-> scale(e.r, inv.val, m, n),
          s |-> scale(e.s, inv.val, m, n),
          t |-> scale(e.t, inv.val, m, n)]
    ELSE e

ConvPoly_extended_gcd_end(e, m, n) ==
    IF ~e.ok THEN Err
    ELSE ConvPoly_extended_gcd_monic(e, inverse(lc(e.r), m), m, n)

\* ConvPoly::extended_gcd(a, b, m, n) -> Result<(gcd, s, t), String>
ConvPoly_extended_gcd(a, b, m, n) ==
    ConvPoly_extended_gcd_end(
        ConvPoly_extended_gcd_loop(a, b, constant(1), constant(0),
                                   constant(0), constant(1), m, n),
        m, n)

\* the modulus polynomial x^n - 1
ModPoly(n) == [i \in 1..(n + 1) |-> IF i = 1 THEN -1 ELSE IF i = n + 1 THEN 1 ELSE 0]

\* the end of ConvPoly::inverse returning the other Bezout coefficient, t
ConvPoly_inverse_end_t(e) ==
    IF ~e.ok THEN Err
    ELSE IF e.r # constant(1) THEN Err
    ELSE [ok |-> TRUE, val |-> e.t]

\* the end of ConvPoly::inverse: the inverse exists iff the gcd is 1
ConvPoly_inverse_end(e) ==
    IF ~e.ok THEN Err
    ELSE IF e.r # constant(1) THEN Err
    ELSE [ok |-> TRUE, val |-> e.s]

\* ConvPoly::inverse(&self, m, n) -> Result<ConvPoly, String>
ConvPoly_inverse(self, m, n) ==
    IF is_zero(self) THEN Err
    ELSE ConvPoly_inverse_end(ConvPoly_extended_gcd(self, ModPoly(n), m, n + 1))

\* ternary_polynomial with the two loops exchanged: the first num_ones
\* indices get -1 and the next num_neg_ones get 1
ternary_polynomial_exchanged(n, num_ones, num_neg_ones, rand_indices) ==
    trim([k \in 1..n |->
            IF \E i \in 1..num_ones : rand_indices[i] = k - 1 THEN -1
            ELSE IF \E i \in (num_ones + 1)..(num_ones + num_neg_ones) :
                         rand_indices[i] = k - 1 THEN 1
            ELSE 0])

\* ternary_polynomial(n, num_ones, num_neg_ones); rand_indices is the shuffled
\* index vector, holding each of 0..n-1 once
ternary_polynomial(n, num_ones, num_neg_ones, rand_indices) ==
    trim([k \in 1..n |->
            IF \E i \in 1..num_ones : rand_indices[i] = k - 1 THEN 1
            ELSE IF \E i \in (num_ones + 1)..(num_ones + num_neg_ones) :
                         rand_indices[i] = k - 1 THEN -1
            ELSE 0])

(***************************************************************************)
(* MESSAGE BYTE CODEC  (ntru_util.rs)                                      *)
(***************************************************************************)

\* the while loop of ternary: digits.push_front(rem), c /= 3
RECURSIVE ternary_loop(_, _)
ternary_loop(c, digits) ==
    IF c > 0
    THEN LET rem_temp == c % 3
             rem == IF rem_temp = 2 THEN -1 ELSE rem_temp
         IN  ternary_loop(c \div 3, <<rem>> \o digits)
    ELSE digits

\* while digits.len() < 5 { digits.push_front(0) }
RECURSIVE pad_front(_)
pad_front(digits) == IF Len(digits) < 5 THEN pad_front(<<0>> \o digits) ELSE digits

\* ternary without the loop that pads the digits to 5
ternary_unpadded(c) ==
    IF ~(c < 242 /\ c >= 0) THEN Err
    ELSE IF c = 0 THEN [ok |-> TRUE, val |-> <<0, 0, 0, 0, 0>>]
    ELSE [ok |-> TRUE, val |-> ternary_loop(c, <<>>)]

\* ternary(c) -> Vec<i32>; the assert!(c < 242 && c >= 0) is ok = FALSE
ternary(c) ==
    IF ~(c < 242 /\ c >= 0) THEN Err
    ELSE IF c = 0 THEN [ok |-> TRUE, val |-> <<0, 0, 0, 0, 0>>]
    ELSE [ok |-> TRUE, val |-> pad_front(ternary_loop(c, <<>>))]

RECURSIVE serialize_loop(_, _)
serialize_loop(plain_msg, digit_vec) ==
    IF plain_msg = <<>> THEN [ok |-> TRUE, val |-> digit_vec]
    ELSE LET t == ternary(Head(plain_msg))
         IN  IF ~t.ok THEN Err
             ELSE serialize_loop(Tail(plain_msg), digit_vec \o t.val)

\* serialize(plain_msg) -> ConvPoly; a failed assert is ok = FALSE
serialize(plain_msg) ==
    IF ~(Len(plain_msg) * 5 <= N) THEN Err
    ELSE serialize_loop(plain_msg, <<>>)

RECURSIVE pow3(_)
pow3(i) == IF i = 0 THEN 1 ELSE 3 * pow3(i - 1)

bal_tern_esc(n, i) == IF n = -1 THEN 2 * pow3(i) ELSE n * pow3(i)

\* while ser_ch.len() < 5 { ser_ch.push(0) }
RECURSIVE pad_back(_)
pad_back(ser_ch) == IF Len(ser_ch) < 5 THEN pad_back(ser_ch \o <<0>>) ELSE ser_ch

\* out_of_ternary(ser_ch) -> Option<u8>
out_of_ternary(chunk) ==
    IF chunk = <<0, 0, 0, 0, 0>> THEN Err
    ELSE LET ser_ch == IF Len(chunk) % 5 # 0 \/ Len(chunk) > 5
                       THEN SubSeq(pad_back(chunk), 1, 5)
                       ELSE chunk
             ans == bal_tern_esc(ser_ch[5], 0) + bal_tern_esc(ser_ch[4], 1)
                    + bal_tern_esc(ser_ch[3], 2) + bal_tern_esc(ser_ch[2], 3)
                    + bal_tern_esc(ser_ch[1], 4)
         IN  IF ans >= 0 /\ ans <= 255 THEN [ok |-> TRUE, val |-> ans] ELSE Err

\* for chunk in coeffs.chunks(5)
RECURSIVE deserialize_loop(_, _)
deserialize_loop(coeffs, ret) ==
    IF coeffs = <<>> THEN ret
    ELSE LET k == Min(5, Len(coeffs))
             c == out_of_ternary(SubSeq(coeffs, 1, k))
         IN  deserialize_loop(SubSeq(coeffs, k + 1, Len(coeffs)),
                              IF c.ok THEN Append(ret, c.val) ELSE ret)

\* deserialize(ser_msg) -> Vec<u8>
deserialize(ser_msg) == deserialize_loop(ser_msg, <<>>)

(***************************************************************************)
(* NTRU KEYS  (ntru_key.rs)                                                *)
(***************************************************************************)

\* one iteration of the loop of NtruPrivateKey::new up to the match:
\* f is sampled and both inverses are attempted
SampleF_match(f, f_p, f_q) ==
    IF f_p.ok /\ f_q.ok
    THEN [ok |-> TRUE, f |-> f, f_p |-> f_p.val, f_q |-> f_q.val]
    ELSE Err

SampleF_inverses(f) == SampleF_match(f, ConvPoly_inverse(f, P, N), ConvPoly_inverse(f, Q, N))

SampleF(shuffle_f) == SampleF_inverses(ternary_polynomial(N, D + 1, D, shuffle_f))

\* the (Ok(f_p), Ok(f_q)) arm: g is sampled and the key returned
NtruPrivateKey_new(sampled, shuffle_g) ==
    [f |-> sampled.f, f_p |-> sampled.f_p, f_q |-> sampled.f_q,
     g |-> ternary_polynomial(N, D, D, shuffle_g)]

\* NtruPublicKey::new taking the inverse mod P in place of the inverse mod Q
NtruPublicKey_new_f_p(k_priv) == [h |-> mul(k_priv.f_p, k_priv.g, N)]

\* NtruPublicKey::new(k_priv): h = f_q * g
NtruPublicKey_new(k_priv) == [h |-> mul(k_priv.f_q, k_priv.g, N)]

\* NtruPublicKey::encrypt(msg) -> ConvPoly, with the blinding shuffle drawn
encrypt(k_pub, msg, shuffle_r) ==
    LET ser_msg == serialize(msg)
    IN  IF ~(Len(msg) * 5 <= N) \/ ~ser_msg.ok THEN Err
        ELSE LET rand == ternary_polynomial(N, D, D, shuffle_r)
                 p == constant(P)
             IN  [ok |-> TRUE,
                  val |-> modulo(add(ser_msg.val, mul(p, mul(rand, k_pub.h, N), N)), Q)]

\* NtruPrivateKey::decrypt(enc_msg) -> Vec<u8>
decrypt(k_priv, enc_msg) ==
    LET a == ConvPoly_center_lift(mul(enc_msg, k_priv.f, N), Q)
        msg_poly == modulo(mul(a, k_priv.f_p, N), P)
    IN  deserialize(msg_poly)

(***************************************************************************)
(* RSA, as the onion crate uses it (rsa_ext: RsaPrivateKey::new,           *)
(* RsaPublicKey::encrypt / RsaPrivateKey::decrypt with PKCS#1 v1.5         *)
(* padding, n().to_bytes_be(), e().to_bytes_be()).                         *)
(*                                                                         *)
(* A key pair is identified by its modulus n, kept as its big-endian       *)
(* bytes.  A ciphertext is a block of as many bytes as the modulus has.    *)
(* Its bytes are opaque: byte j of a block is written as a number above    *)
(* RsaMark, so that it differs from every plaintext byte, and the block    *)
(* records the key that produced it, the length of the plaintext and the   *)
(* plaintext itself.  Only the private half of the recorded key opens it.  *)
(***************************************************************************)

RsaMark == 10000

\* PKCS#1 v1.5 encryption padding takes 11 bytes of the block
RsaPadLen == 11

\* the modulus of key pair number id with the given bit length: the top
\* byte has its high bit set, the modulus is odd
RsaModulus(id, bits) ==
    [j \in 1..(bits \div 8) |->
        IF j = 1 THEN 128 + id ELSE IF j = bits \div 8 THEN 1 ELSE 0]

RsaKeyId(n) == n[1] - 128

\* RsaPrivateKey::new(&mut rng, bits), drawn as key pair number id
RsaPrivateKey_new(id, bits) == [n |-> RsaModulus(id, bits), d |-> id]

\* RsaPublicKey::from(&private_key); the public exponent is 65537
RsaPublicKey_from(private_key) == [n |-> private_key.n, e |-> <<1, 0, 1>>]

\* public_key.encrypt(&mut rng, PaddingScheme::new_pkcs1v15_encrypt(), msg):
\* Err(MessageTooLong) when the message and the padding exceed the block
rsa_encrypt(public_key, msg) ==
    LET k == Len(public_key.n)
    IN  IF Len(msg) + RsaPadLen > k THEN Err
        ELSE [ok |-> TRUE,
              val |-> [j \in 1..k |->
                          IF j = 1 THEN RsaMark + 1000 + RsaKeyId(public_key.n)
                          ELSE IF j = 2 THEN RsaMark + 2000 + Len(msg)
                          ELSE IF j <= 2 + Len(msg) THEN RsaMark + msg[j - 2]
                          ELSE RsaMark + 999]]

\* does the private key open the block
rsa_opens(private_key, bytes) ==
    /\ Len(bytes) = Len(private_key.n)
    /\ bytes[1] = RsaMark + 1000 + RsaKeyId(private_key.n)

\* private_key.decrypt(PaddingScheme::new_pkcs1v15_encrypt(), bytes):
\* Err(Decryption) unless bytes is a block made under the public half
rsa_decrypt(private_key, bytes) ==
    IF rsa_opens(private_key, bytes)
    THEN [ok |-> TRUE,
          val |-> [j \in 1..(bytes[2] - RsaMark - 2000) |-> bytes[j + 2] - RsaMark]]
    ELSE Err

(***************************************************************************)
(* RSA PUBLIC KEY BYTES  (rsa_utils.rs)                                    *)
(***************************************************************************)

\* the length of the modulus that from_be_bytes takes off the buffer
RsaModulusLen == 128

\* to_be_bytes(rsa_pub_key): n().to_bytes_be() followed by e().to_bytes_be()
to_be_bytes(rsa_pub_key) == rsa_pub_key.n \o rsa_pub_key.e

\* BigUint::from_bytes_be of at most four bytes
RECURSIVE BigUint_from_bytes_be(_)
BigUint_from_bytes_be(bytes) ==
    IF bytes = <<>> THEN 0
    ELSE BigUint_from_bytes_be(SubSeq(bytes, 1, Len(bytes) - 1)) * 256 + bytes[Len(bytes)]

\* the bytes without their leading zeros, as BigUint keeps a number
RECURSIVE strip_zeros(_)
strip_zeros(bytes) ==
    IF bytes # <<>> /\ bytes[1] = 0 THEN strip_zeros(Tail(bytes)) ELSE bytes

\* RsaPublicKey::new(n, e): Err when the public exponent is below 2 or above
\* the library's maximum, which is below 2^31 in the model
RsaPublicKey_new(n, e) ==
    IF Len(strip_zeros(e)) > 4 THEN Err
    ELSE IF Len(strip_zeros(e)) = 4 /\ strip_zeros(e)[1] >= 128 THEN Err
    ELSE IF BigUint_from_bytes_be(strip_zeros(e)) < 2 THEN Err
    ELSE [ok |-> TRUE, val |-> [n |-> n, e |-> strip_zeros(e)]]

\* from_be_bytes(buf) -> RsaPublicKey; the slice &buf[..128] panics on a
\* shorter buffer, and the unwrap panics when RsaPublicKey::new refuses
from_be_bytes(buf) ==
    IF Len(buf) < RsaModulusLen THEN Err
    ELSE RsaPublicKey_new(SubSeq(buf, 1, RsaModulusLen),
                          SubSeq(buf, RsaModulusLen + 1, Len(buf)))

(***************************************************************************)
(* INTEGER BYTES  (u32::to_be_bytes, i32::to_be_bytes and their inverses)  *)
(***************************************************************************)

\* the four big-endian bytes of x, 0 <= x < 2^31
be_bytes(x) ==
    <<x \div 16777216, (x \div 65536) % 256, (x \div 256) % 256, x % 256>>

\* u32::to_be_bytes for the ids the model draws, all below 2^31
u32_to_be_bytes(x) == be_bytes(x)

\* u32::from_be_bytes, for a value below 2^31
u32_from_be_bytes(b) == ((b[1] * 256 + b[2]) * 256 + b[3]) * 256 + b[4]

\* i32::to_be_bytes: two's complement, the bytes of -(x+1) inverted when x < 0
i32_to_be_bytes(x) ==
    IF x >= 0 THEN be_bytes(x)
    ELSE [j \in 1..4 |-> 255 - be_bytes(-(x + 1))[j]]

\* i32::from_be_bytes
i32_from_be_bytes(b) ==
    IF b[1] < 128 THEN u32_from_be_bytes(b)
    ELSE -1 - u32_from_be_bytes([j \in 1..4 |-> 255 - b[j]])

(***************************************************************************)
(* POLYNOMIAL BYTES  (convolution_polynomial.rs, ntru_key.rs)              *)
(***************************************************************************)

RECURSIVE coeffs_to_be_bytes(_)
\* for coeff in coeffs { buf.extend_from_slice(&coeff.to_be_bytes()) }
coeffs_to_be_bytes(coeffs) ==
    IF coeffs = <<>> THEN <<>>
    ELSE i32_to_be_bytes(Head(coeffs)) \o coeffs_to_be_bytes(Tail(coeffs))

\* ConvPoly::to_be_bytes: every coefficient as four big-endian bytes, in
\* ascending degree, deg + 1 coefficients
ConvPoly_to_be_bytes(poly) == coeffs_to_be_bytes(SubSeq(poly, 1, deg(poly) + 1))

\* ConvPoly::deserialize(buf): buf[i..i+3] for i = 0, 4, 8, ...; the index
\* runs off a buffer whose length is not a multiple of 4
ConvPoly_deserialize(buf) ==
    IF Len(buf) % 4 # 0 THEN Err
    ELSE [ok |-> TRUE,
          val |-> [k \in 1..(Len(buf) \div 4) |->
                      i32_from_be_bytes(SubSeq(buf, 4 * k - 3, 4 * k))]]

\* ConvPoly::from_be_bytes, the inverse of to_be_bytes
ConvPoly_from_be_bytes(buf) == ConvPoly_deserialize(buf)

\* NtruPublicKey::encrypt_bytes(bytes): serialize the bytes, then encrypt
encrypt_bytes(k_pub, bytes, shuffle_r) == encrypt(k_pub, bytes, shuffle_r)

\* NtruPrivateKey::decrypt_to_bytes(poly): decrypt, then deserialize
decrypt_to_bytes(k_priv, poly) == decrypt(k_priv, poly)

(***************************************************************************)
(* MESSAGES  (messages/message.rs, messages/payloads)                      *)
(*                                                                         *)
(* A Message is a record: variant names the enum variant (for a Relay      *)
(* message, the variant of its RelayPayload) and body is the payload's     *)
(* field: the public key of Create, Created, Extend and Extended, the      *)
(* status of Begin, the data of Data.                                      *)
(***************************************************************************)

MESSAGE_CREATE == 0
MESSAGE_CREATED == 1
MESSAGE_RELAY == 2

PAYLOAD_EXTEND == 2
PAYLOAD_EXTENDED == 3
PAYLOAD_BEGIN == 4
PAYLOAD_DATA == 5

Create(public_key) == [variant |-> "Create", body |-> public_key]
Created(public_key) == [variant |-> "Created", body |-> public_key]
Extend(public_key) == [variant |-> "Extend", body |-> public_key]
Extended(public_key) == [variant |-> "Extended", body |-> public_key]
Begin(status) == [variant |-> "Begin", body |-> status]
Data(data) == [variant |-> "Data", body |-> data]

\* equality of two messages: the same variant and the same payload
SameMessage(a, b) == a.variant = b.variant /\ a.body = b.body

\* CreatePayload / CreatedPayload / ExtendedPayload ::to_be_bytes
KeyPayload_to_be_bytes(payload) == to_be_bytes(payload)

\* CreatePayload / CreatedPayload / ExtendedPayload ::from_be_bytes
KeyPayload_from_be_bytes(buf) == from_be_bytes(buf)

\* ExtendPayload::to_be_bytes: the byte-serialized public key
ExtendPayload_to_be_bytes(payload) == to_be_bytes(payload)

\* ExtendPayload::from_be_bytes
ExtendPayload_from_be_bytes(buf) == from_be_bytes(buf)

\* BeginPayload::to_be_bytes: vec![self.status as u8]
BeginPayload_to_be_bytes(status) == IF status THEN <<1>> ELSE <<0>>

\* BeginPayload::from_be_bytes: status = buf[0] != 0
BeginPayload_from_be_bytes(buf) ==
    IF buf = <<>> THEN Err ELSE [ok |-> TRUE, val |-> buf[1] # 0]

\* DataPayload::to_be_bytes
DataPayload_to_be_bytes(data) == data

\* DataPayload::from_be_bytes
DataPayload_from_be_bytes(buf) == [ok |-> TRUE, val |-> buf]

\* add_quantum_onion_skin(bytes, id_key)
add_quantum_onion_skin(bytes, id_key, shuffle_r) ==
    LET poly == encrypt_bytes(id_key, bytes, shuffle_r)
    IN  IF poly.ok THEN [ok |-> TRUE, val |-> ConvPoly_to_be_bytes(poly.val)] ELSE Err

\* remove_quantum_onion_skin(bytes, id_key)
remove_quantum_onion_skin(bytes, id_key) ==
    LET poly == ConvPoly_from_be_bytes(bytes)
    IN  IF poly.ok THEN [ok |-> TRUE, val |-> decrypt_to_bytes(id_key, poly.val)] ELSE Err

\* for i in 1..onion_keys.len() { enc = onion_keys[i].encrypt(.., &enc).unwrap() }
RECURSIVE add_onion_skin_loop(_, _, _)
add_onion_skin_loop(enc, onion_keys, i) ==
    IF i > Len(onion_keys) THEN enc
    ELSE IF ~enc.ok THEN Err
    ELSE add_onion_skin_loop(rsa_encrypt(onion_keys[i], enc.val), onion_keys, i + 1)

\* add_onion_skin(bytes, onion_keys): onion_keys[0] encrypts first
add_onion_skin(bytes, onion_keys) ==
    IF onion_keys = <<>> THEN [ok |-> TRUE, val |-> bytes]
    ELSE add_onion_skin_loop(rsa_encrypt(onion_keys[1], bytes), onion_keys, 2)

\* for i in 1..onion_keys.len() { dec = onion_keys[i].decrypt(.., &dec).unwrap() }
RECURSIVE remove_onion_skin_loop(_, _, _)
remove_onion_skin_loop(dec, onion_keys, i) ==
    IF i > Len(onion_keys) THEN dec
    ELSE IF ~dec.ok THEN Err
    ELSE remove_onion_skin_loop(rsa_decrypt(onion_keys[i], dec.val), onion_keys, i + 1)

\* remove_onion_skin decrypting with the last key first and onion_keys[0] last
RECURSIVE remove_onion_skin_down(_, _, _)
remove_onion_skin_down(dec, onion_keys, i) ==
    IF i < 1 THEN dec
    ELSE IF ~dec.ok THEN Err
    ELSE remove_onion_skin_down(rsa_decrypt(onion_keys[i], dec.val), onion_keys, i - 1)

remove_onion_skin_last_first(bytes, onion_keys) ==
    remove_onion_skin_down([ok |-> TRUE, val |-> bytes], onion_keys, Len(onion_keys))

\* remove_onion_skin(bytes, onion_keys): onion_keys[0] decrypts first
remove_onion_skin(bytes, onion_keys) ==
    IF onion_keys = <<>> THEN [ok |-> TRUE, val |-> bytes]
    ELSE remove_onion_skin_loop(rsa_decrypt(onion_keys[1], bytes), onion_keys, 2)

\* the buffer Message::to_be_bytes builds for a Relay message: the two tags,
\* then the payload under the onion skins
Relay_buf(payload_tag, payload_bytes, onion_keys) ==
    LET onion == add_onion_skin(payload_bytes, onion_keys)
    IN  IF onion.ok
        THEN [ok |-> TRUE, val |-> <<MESSAGE_RELAY, payload_tag>> \o onion.val]
        ELSE Err

\* the match of Message::to_be_bytes: the buffer before the NTRU layer
Message_buf(msg, onion_keys) ==
    CASE msg.variant = "Create" ->
           [ok |-> TRUE, val |-> <<MESSAGE_CREATE>> \o KeyPayload_to_be_bytes(msg.body)]
      [] msg.variant = "Created" ->
           [ok |-> TRUE, val |-> <<MESSAGE_CREATED>> \o KeyPayload_to_be_bytes(msg.body)]
      [] msg.variant = "Extend" ->
           Relay_buf(PAYLOAD_EXTEND, ExtendPayload_to_be_bytes(msg.body), onion_keys)
      [] msg.variant = "Extended" ->
           Relay_buf(PAYLOAD_EXTENDED, KeyPayload_to_be_bytes(msg.body), onion_keys)
      [] msg.variant = "Begin" ->
           Relay_buf(PAYLOAD_BEGIN, BeginPayload_to_be_bytes(msg.body), onion_keys)
      [] msg.variant = "Data" ->
           Relay_buf(PAYLOAD_DATA, DataPayload_to_be_bytes(msg.body), onion_keys)

\* the NTRU layer that ends Message::to_be_bytes
Message_seal(buf, id_key, shuffle_r) ==
    IF buf.ok THEN add_quantum_onion_skin(buf.val, id_key, shuffle_r) ELSE Err

\* Message::to_be_bytes(&self, id_key, onion_keys)
Message_to_be_bytes(msg, id_key, onion_keys, shuffle_r) ==
    Message_seal(Message_buf(msg, onion_keys), id_key, shuffle_r)

\* a parsed payload made into the message of the given variant
Message_of(variant, payload) ==
    IF payload.ok THEN [ok |-> TRUE, val |-> [variant |-> variant, body |-> payload.val]]
    ELSE Err

\* the bytes of a Relay payload once the onion skins are off
Relay_payload(variant, payload_bytes) ==
    IF ~payload_bytes.ok THEN Err
    ELSE CASE variant = "Extend" ->
                Message_of(variant, ExtendPayload_from_be_bytes(payload_bytes.val))
           [] variant = "Extended" ->
                Message_of(variant, KeyPayload_from_be_bytes(payload_bytes.val))
           [] variant = "Begin" ->
                Message_of(variant, BeginPayload_from_be_bytes(payload_bytes.val))
           [] variant = "Data" ->
                Message_of(variant, DataPayload_from_be_bytes(payload_bytes.val))

\* the arm of match msg[1]; msg[1] and &msg[2..] panic on a shorter buffer
Relay_parse(msg, onion_keys) ==
    IF Len(msg) < 2 THEN Err
    ELSE IF msg[2] \notin {PAYLOAD_EXTEND, PAYLOAD_EXTENDED, PAYLOAD_BEGIN, PAYLOAD_DATA}
    THEN Err
    ELSE Relay_payload(CASE msg[2] = PAYLOAD_EXTEND -> "Extend"
                         [] msg[2] = PAYLOAD_EXTENDED -> "Extended"
                         [] msg[2] = PAYLOAD_BEGIN -> "Begin"
                         [] msg[2] = PAYLOAD_DATA -> "Data",
                       remove_onion_skin(SubSeq(msg, 3, Len(msg)), onion_keys))

\* the match msg[0] of Message::from_be_bytes
Message_parse(msg, onion_keys) ==
    IF ~msg.ok THEN Err
    ELSE IF msg.val = <<>> THEN Err
    ELSE IF msg.val[1] = MESSAGE_CREATE
    THEN Message_of("Create", KeyPayload_from_be_bytes(Tail(msg.val)))
    ELSE IF msg.val[1] = MESSAGE_CREATED
    THEN Message_of("Created", KeyPayload_from_be_bytes(Tail(msg.val)))
    ELSE IF msg.val[1] = MESSAGE_RELAY
    THEN Relay_parse(msg.val, onion_keys)
    ELSE Err

\* Message::from_be_bytes(msg, id_key, onion_keys)
Message_from_be_bytes(msg, id_key, onion_keys) ==
    Message_parse(remove_quantum_onion_skin(msg, id_key), onion_keys)

\* OnionPacket::to_be_bytes(&self, id_key, onion_keys)
OnionPacket_frame(circ_id, msg_bytes) ==
    IF msg_bytes.ok
    THEN [ok |-> TRUE,
          val |-> u32_to_be_bytes(circ_id) \o u32_to_be_bytes(Len(msg_bytes.val))
                  \o msg_bytes.val]
    ELSE Err

OnionPacket_to_be_bytes(packet, id_key, onion_keys, shuffle_r) ==
    OnionPacket_frame(packet.header.circ_id,
                      Message_to_be_bytes(packet.msg, id_key, onion_keys, shuffle_r))

\* Channel::build_packet(id, msg)
build_packet(id, msg) == [header |-> [circ_id |-> id], msg |-> msg]

\* outcomes of rand_indices.shuffle(&mut rng) the model draws: the index
\* vectors i |-> (a + s*i) mod n with s coprime to n
Shuffles(n) ==
    {[i \in 1..n |-> (a + s * (i - 1)) % n] :
        a \in 0..MaxShift,
        s \in {t \in 1..MaxStride : extended_gcd(t, n)[1] = 1}}

\* byte values the model draws messages from
ByteSample == {0, 1, 72, 241, 242}

RECURSIVE SeqsUpTo(_, _)
SeqsUpTo(S, n) ==
    IF n = 0 THEN {<<>>}
    ELSE LET shorter == SeqsUpTo(S, n - 1)
         IN  shorter \cup {Append(m, b) : m \in {x \in shorter : Len(x) = n - 1}, b \in S}

\* one message past the capacity N / 5
TooLong == [i \in 1..(N \div 5 + 1) |-> 1]

Messages == SeqsUpTo(ByteSample, MaxMsgLen) \cup {TooLong}

NoPoly == <<>>

NoKey == [public |-> [h |-> NoPoly],
          private |-> [f |-> NoPoly, f_p |-> NoPoly, f_q |-> NoPoly, g |-> NoPoly]]

\* the onion key pairs the model draws: two of 1024 bits, as
\* Host::generate_onion_keys(1024) makes them, one of 2048 and one of 3072
OnionKeyPool ==
    {RsaPrivateKey_new(1, 1024), RsaPrivateKey_new(2, 1024),
     RsaPrivateKey_new(3, 2048), RsaPrivateKey_new(4, 3072)}

\* the longest onion key list drawn: CIRCUIT_LENGTH keys
MaxOnionKeys == 3

OnionKeyLists == SeqsUpTo(OnionKeyPool, MaxOnionKeys)

\* the public halves of a list of private keys, in the same order
PublicKeys(private_keys) ==
    [i \in 1..Len(private_keys) |-> RsaPublicKey_from(private_keys[i])]

\* payload bytes handed to add_onion_skin: empty, one byte, and the longest
\* a 1024-bit key takes and one byte more
OnionPayloads ==
    {<<>>, <<7>>,
     [i \in 1..(RsaModulusLen - RsaPadLen) |-> 1],
     [i \in 1..(RsaModulusLen - RsaPadLen + 1) |-> 1]}

\* circuit ids the model draws
CircIds == {0, 7, 66051}

\* the public key a Create / Created / Extend / Extended carries
SomePublicKey == RsaPublicKey_from(RsaPrivateKey_new(1, 1024))

\* the messages handed to Channel::send: each variant; the Relay payloads
\* are short enough for the scaled N when no onion skin is added
ChanMessages ==
    {Create(SomePublicKey), Created(SomePublicKey),
     Extend(SomePublicKey), Extended(SomePublicKey),
     Begin(TRUE), Begin(FALSE),
     Data(<<>>), Data(<<72>>), Data(<<0>>)}

\* the matching onion key lists of the two ends of the connection
ChanKeyLists ==
    {<<>>, <<RsaPrivateKey_new(1, 1024)>>,
     <<RsaPrivateKey_new(1, 1024), RsaPrivateKey_new(2, 1024)>>}

NoChannel == [forward_id_key |-> [h |-> NoPoly], forward_onion_keys |-> <<>>,
              backward_id_key |-> NoKey.private, backward_onion_keys |-> <<>>]

NoPacket == build_packet(0, Data(<<>>))

\* the variables of each machine at rest
NtruIdle ==
    /\ ntru_pc = "off"
    /\ keypair = NoKey
    /\ plain = <<>>
    /\ cipher = NoPoly
    /\ decrypted = <<>>

OnionIdle ==
    /\ skin_pc = "off"
    /\ skin_keys = <<>>
    /\ skin_bytes = <<>>
    /\ skin_enc = <<>>
    /\ skin_dec = <<>>

ChanIdle ==
    /\ chan_pc = "off"
    /\ tx = NoChannel
    /\ rx = NoChannel
    /\ connection = <<>>
    /\ sent = NoPacket
    /\ received = NoPacket

CIRCUIT_LENGTH == 3

\* the ports random_high_port can return in the model
Ports == {20000, 20001, 20002}

\* the most relays Directory::generate_relay registers
MaxRelays == 3

\* the most packets put on a relay's mpsc channel
MaxCells == 2

\* the most TCP connections Host::create_channel attempts
MaxConns == 1

\* the Relay object that runs, and the port it was constructed with
RelayIds == {0}

RelayPort(r) == 20000 + r


\* circuit ids carried by packets
NodeCircIds == {7, 66051}

\* circuit ids under which channels are created
ChannelCircIds == {7}

\* ports handed to Host::create_channel: the running relay's and a free one
ConnectPorts == {20000, 20001}

\* a std::sync::Mutex: the thread holding it, and whether a thread panicked
\* while holding it
Unlocked == [owner |-> "none", poisoned |-> FALSE]

\* the identity key pair of a node, NtruKeyPair::new(), named by its owner
IdKey(owner) == [public |-> <<"id_key_pub", owner>>, private |-> <<"id_key_priv", owner>>]

\* a Channel of a node's channel table; written holds the packets sent on it
Channel_new(forward_id_key, backward_id_key, backward_onion_keys, conn) ==
    [forward_id_key |-> forward_id_key,
     backward_id_key |-> backward_id_key,
     forward_onion_keys |-> <<>>,
     backward_onion_keys |-> backward_onion_keys,
     connection |-> conn,
     written |-> <<>>]

\* Host::generate_onion_keys(bits): CIRCUIT_LENGTH fresh key pairs
generate_onion_keys(bits) == [i \in 1..CIRCUIT_LENGTH |-> RsaPrivateKey_new(i, bits)]

\* Relay::new(id, port, directory) before any of its threads is started
Relay_new(id, port) ==
    [port |-> port,
     id_key |-> IdKey(<<"relay", id>>),
     listening |-> FALSE,   \* the listener thread has bound the port
     backlog |-> <<>>,      \* connections made to the port and not yet accepted
     accepted |-> {},       \* connections listener.accept() returned
     handler |-> "none",    \* the packet handler thread: none, waiting, dead
     inbox |-> <<>>,        \* the packets in the mpsc channel
     handled |-> <<>>,      \* the packets handle_packet took, in order
     channels |-> <<>>,     \* Relay.channels: ChannelTable
     poisoned |-> FALSE]    \* the mutex around Relay.channels

\* Directory::new()
Directory_new == [relays |-> <<>>, used_ports |-> {}, next_relay_id |-> 0]

\* the directory after Directory::generate_relay has drawn the port
Directory_generate_relay(dir, port) ==
    [relays |-> (dir.next_relay_id :>
                    [port |-> port,
                     id_key_pub |-> IdKey(<<"relay", dir.next_relay_id>>).public])
                @@ dir.relays,
     used_ports |-> dir.used_ports \cup {port},
     next_relay_id |-> dir.next_relay_id + 1]

\* CircuitTable::new()
CircuitTable_new == [circuits |-> <<>>, used_circuit_ids |-> {}]

\* the packets put on a relay's mpsc channel
NodePackets ==
    {build_packet(c, m) :
        c \in NodeCircIds,
        m \in {Create(SomePublicKey), Created(SomePublicKey), Extend(SomePublicKey),
               Extended(SomePublicKey), Data(<<72>>)}}

\* Host::new and Relay::new have run; no thread is started
NodeStart ==
    /\ host_keys = <<>>
    /\ host_locks = [circuit_table |-> Unlocked, channels |-> Unlocked]
    /\ circuit_table = CircuitTable_new
    /\ host_channels = <<>>
    /\ directory = Directory_new
    /\ relays = [r \in RelayIds |-> Relay_new(r, RelayPort(r))]
    /\ conns = 0

NodeIdle == host_pc = "off" /\ NodeStart

\* no call is made
CallIdle == call_pc = "off" /\ call_args = <<>> /\ call_ret = <<>>

\* the shuffles the reader machine draws for f and for the blinding
\* polynomials of its peers: the one that leaves the indices in place
ReaderShuffles == {shuffle \in Shuffles(N) : shuffle[1] = 0 /\ shuffle[2] = 1}

(***************************************************************************)
(* The NTRU round trip as a state machine: NtruKeyPair::new, then          *)
(* public.encrypt(msg), then private.decrypt(enc_msg)                      *)
(* (tests/ntru_key_tests.rs, test_ntru_encrypt_decrypt).                   *)
(***************************************************************************)

NtruInit ==
    /\ ntru_pc = "start"
    /\ keypair = NoKey
    /\ plain = <<>>
    /\ cipher = NoPoly
    /\ decrypted = <<>>
    /\ OnionIdle
    /\ ChanIdle
    /\ NodeIdle
    /\ CallIdle

\* NtruKeyPair::new() once the private key is made
NtruKeyPair_from(k_priv) == [public |-> NtruPublicKey_new(k_priv), private |-> k_priv]

\* the key pairs NtruKeyPair::new() can return from a sampled f that has both
\* inverses; the sampling loop repeats until f has them
NtruKeyPairs_of(sampled) ==
    IF sampled.ok
    THEN {NtruKeyPair_from(NtruPrivateKey_new(sampled, shuffle_g)) :
              shuffle_g \in Shuffles(N)}
    ELSE {}

\* NtruKeyPair::new()
NtruKeyPair_new ==
    /\ ntru_pc = "start"
    /\ \E shuffle_f \in Shuffles(N) : keypair' \in NtruKeyPairs_of(SampleF(shuffle_f))
    /\ ntru_pc' = "keyed"
    /\ UNCHANGED <<plain, cipher, decrypted, onionVars, chanVars, nodeVars, callVars>>

\* keypair.public.encrypt(msg)
Encrypt_outcome(e) ==
    IF e.ok
    THEN cipher' = e.val /\ ntru_pc' = "encrypted"
    ELSE cipher' = cipher /\ ntru_pc' = "panicked"

Encrypt ==
    /\ ntru_pc = "keyed"
    /\ \E msg \in Messages, shuffle_r \in Shuffles(N) :
          /\ plain' = msg
          /\ Encrypt_outcome(encrypt(keypair.public, msg, shuffle_r))
    /\ UNCHANGED <<keypair, decrypted, onionVars, chanVars, nodeVars, callVars>>

\* keypair.private.decrypt(enc_msg)
Decrypt ==
    /\ ntru_pc = "encrypted"
    /\ decrypted' = decrypt(keypair.private, cipher)
    /\ ntru_pc' = "decrypted"
    /\ UNCHANGED <<keypair, plain, cipher, onionVars, chanVars, nodeVars, callVars>>

NtruNext == NtruKeyPair_new \/ Encrypt \/ Decrypt

SpecNtru == NtruInit /\ [][NtruNext]_vars

(***************************************************************************)
(* The byte codec on its own: serialize(msg), then deserialize(ser_msg)    *)
(* (tests/ntru_util_tests.rs, test_ser_deserialize).  plain is the         *)
(* message, cipher the polynomial serialize returned, decrypted the bytes  *)
(* deserialize returned.                                                   *)
(***************************************************************************)

\* the longest message handed to serialize: 5 * 3 <= N
MaxCodecLen == 3

CodecMessages == SeqsUpTo(ByteSample, MaxCodecLen) \cup {TooLong}

CodecInit ==
    /\ ntru_pc = "codec_start"
    /\ keypair = NoKey
    /\ plain \in CodecMessages
    /\ cipher = NoPoly
    /\ decrypted = <<>>
    /\ OnionIdle
    /\ ChanIdle
    /\ NodeIdle
    /\ CallIdle

\* serialize(plain_msg) returns the polynomial or an assert fails
Serialize_outcome(ser_msg) ==
    IF ser_msg.ok
    THEN cipher' = ser_msg.val /\ ntru_pc' = "serialized"
    ELSE cipher' = cipher /\ ntru_pc' = "serialize_panicked"

\* let ser_msg = serialize(msg_bytes)
Serialize ==
    /\ ntru_pc = "codec_start"
    /\ Serialize_outcome(serialize(plain))
    /\ UNCHANGED <<keypair, plain, decrypted, onionVars, chanVars, nodeVars, callVars>>

\* let deser = deserialize(ser_msg)
Deserialize ==
    /\ ntru_pc = "serialized"
    /\ decrypted' = deserialize(cipher)
    /\ ntru_pc' = "deserialized"
    /\ UNCHANGED <<keypair, plain, cipher, onionVars, chanVars, nodeVars, callVars>>

CodecNext == Serialize \/ Deserialize

SpecCodec == CodecInit /\ [][CodecNext]_vars

(***************************************************************************)
(* ConvPoly::inverse on its own: poly.inverse(m, n) as src/main.rs and     *)
(* NtruPrivateKey::new call it.  call_args holds the polynomial and the    *)
(* ring, call_ret the Result.                                              *)
(***************************************************************************)

\* the number of coefficients of the polynomials handed to inverse
InverseLen == 5

\* the rings (Z/mZ)[x]/(x^n - 1) the model tries
InverseRings == {[m |-> m, n |-> InverseLen] : m \in {2, 3, 4}}

RECURSIVE Vectors(_, _)
\* the coefficient vectors of length len over the set S
Vectors(S, len) ==
    IF len = 0 THEN {<<>>}
    ELSE {Append(v, c) : v \in Vectors(S, len - 1), c \in S}

\* ternary coefficient vectors, as ternary_polynomial makes them
InversePolys == Vectors({-1, 0, 1}, InverseLen)

InverseInit ==
    /\ call_pc = "inverse"
    /\ call_args \in {[self |-> a, m |-> ring.m, n |-> ring.n] :
                         a \in InversePolys, ring \in InverseRings}
    /\ call_ret = <<>>
    /\ NtruIdle
    /\ OnionIdle
    /\ ChanIdle
    /\ NodeIdle

\* let inverse = poly.inverse(m, n)
Inverse ==
    /\ call_pc = "inverse"
    /\ call_ret' = ConvPoly_inverse(call_args.self, call_args.m, call_args.n)
    /\ call_pc' = "inverse_returned"
    /\ UNCHANGED <<call_args, ntruVars, onionVars, chanVars, nodeVars>>

InverseNext == Inverse

SpecInverse == InverseInit /\ [][InverseNext]_vars

(***************************************************************************)
(* The functions of the ntru crate called on their own, as its tests call  *)
(* them.  call_pc names the function about to be called, call_args holds   *)
(* its arguments and call_ret what it returned.                            *)
(***************************************************************************)

\* NtruPublicKey::serialize with the trailing zero coefficients left out
NtruPublicKey_serialize_trimmed(k_pub) == coeffs_to_be_bytes(trim(k_pub.h))

\* NtruPublicKey::serialize(&self): every coefficient of h, four bytes each
NtruPublicKey_serialize(k_pub) == coeffs_to_be_bytes(k_pub.h)

\* NtruPublicKey::deserialize(buf): chunks of four bytes; copy_from_slice
\* panics on a last chunk that is shorter
NtruPublicKey_deserialize(buf) ==
    IF Len(buf) % 4 # 0 THEN Err
    ELSE [ok |-> TRUE,
          val |-> [h |-> [k \in 1..(Len(buf) \div 4) |->
                             i32_from_be_bytes(SubSeq(buf, 4 * k - 3, 4 * k))]]]

\* the most coefficients of a polynomial that is serialized
MaxKeyLen == 3

\* coefficients of the polynomials serialized: the ends of i32, coefficients
\* of a public key before and after its reduction mod Q, and -1, 0, 1
KeyCoeffs == {-2147483647 - 1, -293, -1, 0, 1, Q - 1, 2147483647}

\* the polynomials serialized: every vector of up to MaxKeyLen coefficients
\* and the public keys h of key pairs
KeyPolys ==
    UNION {Vectors(KeyCoeffs, len) : len \in 0..MaxKeyLen}
    \cup {pair.public.h : pair \in UNION {NtruKeyPairs_of(SampleF(shuffle_f)) :
                                             shuffle_f \in ReaderShuffles}}

\* the ring size of the calls of div_mod and extended_gcd, and the most
\* coefficients of their arguments
DivLen == 3

\* coefficients of the arguments: reduced or not, negative or not
DivCoeffs == {-1, 0, 1, 2}

\* the moduli of the calls: two primes and a composite
DivModuli == {2, 3, 4}

\* the polynomials of 1 to DivLen coefficients, trailing zeros included
DivPolys == UNION {Vectors(DivCoeffs, len) : len \in 1..DivLen}

\* the ring size of the calls of extended_gcd: the arguments of fewer than
\* DivLen coefficients fit the ring, those of DivLen coefficients wrap round
GcdRings == {DivLen - 1}

\* the moduli 1..MaxModulus and the integers -MaxInt..MaxInt of the calls of
\* center_lift and inverse
MaxModulus == 12

MaxInt == 25

\* the most coefficients of a polynomial ternary_polynomial is asked for
MaxTernLen == 4

\* the outcomes of rand_indices.shuffle(&mut rng): every order of 0..n-1
AllShuffles(n) ==
    {p \in [1..n -> 0..(n - 1)] : \A i, j \in 1..n : i # j => p[i] # p[j]}

\* #[derive(PartialEq)] on ConvPoly: the equality of the coeffs vectors
ConvPoly_eq(a, b) == Len(a) = Len(b) /\ \A i \in 1..Len(a) : a[i] = b[i]

\* the values of a u8, which serialize hands to ternary as c.into()
Bytes == 0..255

\* the private keys NtruPrivateKey::new() returns for the sampled f of the
\* reader's relay
PrivateKeys ==
    {pair.private :
        pair \in UNION {NtruKeyPairs_of(SampleF(shuffle_f)) : shuffle_f \in ReaderShuffles}}

\* the body of the loop of NtruPrivateKey::serialize: the length of the
\* coefficient vector as a u32, then every coefficient
NtruPrivateKey_serialize_poly(poly) ==
    u32_to_be_bytes(Len(poly)) \o coeffs_to_be_bytes(poly)

\* NtruPrivateKey::serialize(&self) -> Vec<u8>: f, f_p, f_q, g in that order
NtruPrivateKey_serialize(k) ==
    NtruPrivateKey_serialize_poly(k.f) \o NtruPrivateKey_serialize_poly(k.f_p)
        \o NtruPrivateKey_serialize_poly(k.f_q) \o NtruPrivateKey_serialize_poly(k.g)

RECURSIVE NtruPrivateKey_deserialize_polys(_, _, _)
\* the loop of NtruPrivateKey::deserialize from the byte index i (counted
\* from 0) with num polynomials to go: len is read at buf[i..i + 4], the
\* coefficient bytes are the slice buf[i..(i + len * 4)], and i moves on by
\* 4 + len * 4; an index or a slice past the buffer panics
NtruPrivateKey_deserialize_polys(buf, i, num) ==
    IF num = 0 THEN [ok |-> TRUE, val |-> <<>>]
    ELSE IF i + 4 > Len(buf) THEN Err
    ELSE LET len == u32_from_be_bytes(SubSeq(buf, i + 1, i + 4))
         IN  IF i + len * 4 > Len(buf) THEN Err
             ELSE LET poly == ConvPoly_deserialize(SubSeq(buf, i + 1, i + len * 4))
                      polys == NtruPrivateKey_deserialize_polys(buf, i + 4 + len * 4, num - 1)
                  IN  IF ~poly.ok \/ ~polys.ok THEN Err
                      ELSE [ok |-> TRUE, val |-> <<poly.val>> \o polys.val]

\* NtruPrivateKey::deserialize(buf) -> NtruPrivateKey
NtruPrivateKey_deserialize(buf) ==
    LET polys == NtruPrivateKey_deserialize_polys(buf, 0, 4)
    IN  IF ~polys.ok THEN Err
        ELSE [ok |-> TRUE,
              val |-> [f |-> polys.val[1], f_p |-> polys.val[2],
                       f_q |-> polys.val[3], g |-> polys.val[4]]]

\* the calls the machine starts from
ArithCalls ==
    {[pc |-> "serialize", args |-> [h |-> p]] : p \in KeyPolys}
    \cup {[pc |-> "div_mod", args |-> [self |-> a, divisor |-> d, m |-> m, n |-> DivLen]] :
        a \in Vectors(DivCoeffs, DivLen), d \in {p \in DivPolys : ~is_zero(p)},
        m \in DivModuli}
    \cup {[pc |-> "extended_gcd", args |-> [a |-> a, b |-> b, m |-> m, n |-> n]] :
        a \in DivPolys, b \in {p \in DivPolys : ~is_zero(p)}, m \in DivModuli,
        n \in GcdRings}
    \cup {[pc |-> "extended_gcd", args |-> [a |-> a, b |-> Zeros(len), m |-> m, n |-> n]] :
        a \in {p \in DivPolys : ~is_zero(p)}, len \in 1..DivLen, m \in DivModuli,
        n \in GcdRings}
    \cup {[pc |-> fn, args |-> [a |-> a, m |-> m]] :
        fn \in {"center_lift", "int_inverse"}, a \in (-MaxInt)..MaxInt, m \in 1..MaxModulus}
    \cup {[pc |-> "ternary_polynomial",
          args |-> [n |-> Len(p), num_ones |-> ones, num_neg_ones |-> neg_ones,
                    rand_indices |-> p]] :
        ones \in 0..MaxTernLen, neg_ones \in 0..MaxTernLen,
        p \in UNION {AllShuffles(k) : k \in 1..MaxTernLen}}
    \cup UNION {{[pc |-> "eq", args |-> [a |-> a, b |-> b]] :
                  b \in {q \in DivPolys : trim(q) = trim(a) \/ Len(q) = 1}} :
              a \in DivPolys}
    \cup {[pc |-> "ternary", args |-> [c |-> c]] : c \in Bytes}
    \cup {[pc |-> "private_serialize", args |-> [k |-> k]] : k \in PrivateKeys}

ArithInit ==
    /\ \E call \in ArithCalls : call_pc = call.pc /\ call_args = call.args
    /\ call_ret = <<>>
    /\ NtruIdle
    /\ OnionIdle
    /\ ChanIdle
    /\ NodeIdle

\* let buf = key.serialize()
Call_serialize ==
    /\ call_pc = "serialize"
    /\ call_ret' = [buf |-> NtruPublicKey_serialize(call_args)]
    /\ call_pc' = "serialized"
    /\ UNCHANGED <<call_args, ntruVars, onionVars, chanVars, nodeVars>>

\* NtruPublicKey::deserialize(&buf) and ConvPoly::deserialize(&buf)
Call_deserialize ==
    /\ call_pc = "serialized"
    /\ call_ret' = [buf |-> call_ret.buf,
                    key |-> NtruPublicKey_deserialize(call_ret.buf),
                    poly |-> ConvPoly_deserialize(call_ret.buf)]
    /\ call_pc' = "deserialized"
    /\ UNCHANGED <<call_args, ntruVars, onionVars, chanVars, nodeVars>>

\* a.div_mod(&divisor, m, n)
Call_div_mod ==
    /\ call_pc = "div_mod"
    /\ call_ret' = div_mod(call_args.self, call_args.divisor, call_args.m, call_args.n)
    /\ call_pc' = "div_mod_returned"
    /\ UNCHANGED <<call_args, ntruVars, onionVars, chanVars, nodeVars>>

\* ConvPoly::extended_gcd(&a, &b, m, n), one of a and b not zero
Call_extended_gcd ==
    /\ call_pc = "extended_gcd"
    /\ call_ret' = ConvPoly_extended_gcd(call_args.a, call_args.b, call_args.m, call_args.n)
    /\ call_pc' = "extended_gcd_returned"
    /\ UNCHANGED <<call_args, ntruVars, onionVars, chanVars, nodeVars>>

\* center_lift(a, m)
Call_center_lift ==
    /\ call_pc = "center_lift"
    /\ call_ret' = [lift |-> center_lift(call_args.a, call_args.m)]
    /\ call_pc' = "center_lift_returned"
    /\ UNCHANGED <<call_args, ntruVars, onionVars, chanVars, nodeVars>>

\* center_lift(c.rem_euclid(m), m) on the value c that center_lift returned
Call_center_lift_again ==
    /\ call_pc = "center_lift_returned"
    /\ call_ret' = [lift |-> call_ret.lift,
                    again |-> center_lift(rem_euclid(call_ret.lift, call_args.m),
                                          call_args.m)]
    /\ call_pc' = "center_lift_twice"
    /\ UNCHANGED <<call_args, ntruVars, onionVars, chanVars, nodeVars>>

\* inverse(a, m)
Call_inverse ==
    /\ call_pc = "int_inverse"
    /\ call_ret' = inverse(call_args.a, call_args.m)
    /\ call_pc' = "int_inverse_returned"
    /\ UNCHANGED <<call_args, ntruVars, onionVars, chanVars, nodeVars>>

\* ternary_polynomial(n, num_ones, num_neg_ones) when its assert holds and
\* the shuffle has given rand_indices
Call_ternary_polynomial ==
    /\ call_pc = "ternary_polynomial"
    /\ call_args.num_ones + call_args.num_neg_ones <= call_args.n
    /\ Len(call_args.rand_indices) = call_args.n
    /\ call_ret' = ternary_polynomial(call_args.n, call_args.num_ones,
                                      call_args.num_neg_ones, call_args.rand_indices)
    /\ call_pc' = "ternary_polynomial_returned"
    /\ UNCHANGED <<call_args, ntruVars, onionVars, chanVars, nodeVars>>

\* a == b, and the test of ConvPoly::inverse, gcd != ConvPoly::constant(1),
\* on a and on b
Call_eq ==
    /\ call_pc = "eq"
    /\ call_ret' = [eq |-> ConvPoly_eq(call_args.a, call_args.b),
                    a_ne_one |-> ~ConvPoly_eq(call_args.a, constant(1)),
                    b_ne_one |-> ~ConvPoly_eq(call_args.b, constant(1))]
    /\ call_pc' = "eq_returned"
    /\ UNCHANGED <<call_args, ntruVars, onionVars, chanVars, nodeVars>>

\* ternary(c.into()) for a byte c of the message
Call_ternary ==
    /\ call_pc = "ternary"
    /\ call_ret' = ternary(call_args.c)
    /\ call_pc' = "ternary_returned"
    /\ UNCHANGED <<call_args, ntruVars, onionVars, chanVars, nodeVars>>

\* let buf = k.serialize()
Call_private_serialize ==
    /\ call_pc = "private_serialize"
    /\ call_ret' = [buf |-> NtruPrivateKey_serialize(call_args.k)]
    /\ call_pc' = "private_serialized"
    /\ UNCHANGED <<call_args, ntruVars, onionVars, chanVars, nodeVars>>

\* NtruPrivateKey::deserialize(&buf)
Call_private_deserialize ==
    /\ call_pc = "private_serialized"
    /\ call_ret' = NtruPrivateKey_deserialize(call_ret.buf)
    /\ call_pc' = "private_deserialized"
    /\ UNCHANGED <<call_args, ntruVars, onionVars, chanVars, nodeVars>>

ArithNext ==
    \/ Call_serialize
    \/ Call_deserialize
    \/ Call_div_mod
    \/ Call_extended_gcd
    \/ Call_center_lift
    \/ Call_center_lift_again
    \/ Call_inverse
    \/ Call_ternary_polynomial
    \/ Call_eq
    \/ Call_ternary
    \/ Call_private_serialize
    \/ Call_private_deserialize

SpecArith == ArithInit /\ [][ArithNext]_vars

(***************************************************************************)
(* The classical onion skins as a state machine: add_onion_skin under the  *)
(* public halves of a key list, then remove_onion_skin under the private   *)
(* halves in the same order.                                               *)
(***************************************************************************)

OnionInit ==
    /\ skin_pc = "start"
    /\ skin_keys \in OnionKeyLists
    /\ skin_bytes \in OnionPayloads
    /\ skin_enc = <<>>
    /\ skin_dec = <<>>
    /\ NtruIdle
    /\ ChanIdle
    /\ NodeIdle
    /\ CallIdle

AddOnionSkin_outcome(enc) ==
    IF enc.ok
    THEN skin_enc' = enc.val /\ skin_pc' = "wrapped"
    ELSE skin_enc' = skin_enc /\ skin_pc' = "wrap_panicked"

\* Message::add_onion_skin(&bytes, skin_keys)
AddOnionSkin ==
    /\ skin_pc = "start"
    /\ AddOnionSkin_outcome(add_onion_skin(skin_bytes, PublicKeys(skin_keys)))
    /\ UNCHANGED <<skin_keys, skin_bytes, skin_dec, ntruVars, chanVars, nodeVars, callVars>>

RemoveOnionSkin_outcome(dec) ==
    IF dec.ok
    THEN skin_dec' = dec.val /\ skin_pc' = "peeled"
    ELSE skin_dec' = skin_dec /\ skin_pc' = "peel_panicked"

\* Message::remove_onion_skin(&bytes, skin_keys)
RemoveOnionSkin ==
    /\ skin_pc = "wrapped"
    /\ RemoveOnionSkin_outcome(remove_onion_skin(skin_enc, skin_keys))
    /\ UNCHANGED <<skin_keys, skin_bytes, skin_enc, ntruVars, chanVars, nodeVars, callVars>>

OnionNext == AddOnionSkin \/ RemoveOnionSkin

SpecOnion == OnionInit /\ [][OnionNext]_vars

(***************************************************************************)
(* Ingress of a backward Relay cell: the relays of a circuit each add one  *)
(* onion skin under their own key, the last relay first and the first      *)
(* relay last, and the receiver calls remove_onion_skin with its backward  *)
(* onion keys [k1, ..., kn].                                               *)
(***************************************************************************)

IngressInit ==
    /\ skin_pc = "ingress"
    /\ skin_keys \in OnionKeyLists
    /\ skin_bytes \in OnionPayloads
    /\ skin_enc = <<>>
    /\ skin_dec = <<>>
    /\ NtruIdle
    /\ ChanIdle
    /\ NodeIdle
    /\ CallIdle

\* relay i, then relay i - 1, ..., then relay 1 call
\* Message::add_onion_skin(&bytes, vec![own key])
RECURSIVE relays_wrap(_, _, _)
relays_wrap(enc, public_keys, i) ==
    IF i < 1 THEN enc
    ELSE IF ~enc.ok THEN Err
    ELSE relays_wrap(add_onion_skin(enc.val, <<public_keys[i]>>), public_keys, i - 1)

RelaysWrap_outcome(enc) ==
    IF enc.ok
    THEN skin_enc' = enc.val /\ skin_pc' = "wrapped"
    ELSE skin_enc' = skin_enc /\ skin_pc' = "relay_panicked"

\* the payload travels backward through the relays n, ..., 1
RelaysWrap ==
    /\ skin_pc = "ingress"
    /\ RelaysWrap_outcome(relays_wrap([ok |-> TRUE, val |-> skin_bytes],
                                      PublicKeys(skin_keys), Len(skin_keys)))
    /\ UNCHANGED <<skin_keys, skin_bytes, skin_dec, ntruVars, chanVars, nodeVars, callVars>>

IngressNext == RelaysWrap \/ RemoveOnionSkin

SpecIngress == IngressInit /\ [][IngressNext]_vars

(***************************************************************************)
(* One connection as a state machine: the receiver's NTRU identity key is  *)
(* generated, the two Channels are set up with matching key material, the  *)
(* sender calls Channel::send and the receiver Channel::recv.              *)
(***************************************************************************)

ChanInit ==
    /\ ntru_pc = "start"
    /\ keypair = NoKey
    /\ plain = <<>>
    /\ cipher = NoPoly
    /\ decrypted = <<>>
    /\ chan_pc = "closed"
    /\ tx = NoChannel
    /\ rx = NoChannel
    /\ connection = <<>>
    /\ sent = NoPacket
    /\ received = NoPacket
    /\ OnionIdle
    /\ NodeIdle
    /\ CallIdle

\* the two Channel values over one TcpStream: the sender's forward identity
\* key is the receiver's public key, the onion key lists match
Channel_open ==
    /\ ntru_pc = "keyed"
    /\ chan_pc = "closed"
    /\ \E keys \in ChanKeyLists :
          /\ tx' = [NoChannel EXCEPT !.forward_id_key = keypair.public,
                                     !.forward_onion_keys = PublicKeys(keys)]
          /\ rx' = [NoChannel EXCEPT !.backward_id_key = keypair.private,
                                     !.backward_onion_keys = keys]
    /\ chan_pc' = "open"
    /\ UNCHANGED <<connection, sent, received, ntruVars, onionVars, nodeVars, callVars>>

\* connection.write(&bytes), or the panic of packet.to_be_bytes
Channel_send_outcome(bytes) ==
    IF bytes.ok
    THEN connection' = connection \o bytes.val /\ chan_pc' = "sent"
    ELSE connection' = connection /\ chan_pc' = "send_panicked"

\* Channel::send(id, msg) on the sender's Channel
Channel_send ==
    /\ chan_pc = "open"
    /\ \E id \in CircIds, msg \in ChanMessages, shuffle_r \in Shuffles(N) :
          /\ sent' = build_packet(id, msg)
          /\ Channel_send_outcome(
                 OnionPacket_to_be_bytes(build_packet(id, msg), tx.forward_id_key,
                                         tx.forward_onion_keys, shuffle_r))
    /\ UNCHANGED <<tx, rx, received, ntruVars, onionVars, nodeVars, callVars>>

\* the three read_exact calls of Channel::recv have their bytes
Channel_recv_ready ==
    /\ Len(connection) >= 8
    /\ Len(connection) >= 8 + u32_from_be_bytes(SubSeq(connection, 5, 8))

\* the packet Channel::recv builds, or the panic of Message::from_be_bytes
Channel_recv_outcome(circ_id, msg) ==
    IF msg.ok
    THEN received' = build_packet(circ_id, msg.val) /\ chan_pc' = "received"
    ELSE received' = received /\ chan_pc' = "recv_panicked"

\* Channel::recv() on the receiver's Channel
Channel_recv ==
    /\ chan_pc = "sent"
    /\ Channel_recv_ready
    /\ Channel_recv_outcome(
           u32_from_be_bytes(SubSeq(connection, 1, 4)),
           Message_from_be_bytes(
               SubSeq(connection, 9, 8 + u32_from_be_bytes(SubSeq(connection, 5, 8))),
               rx.backward_id_key, rx.backward_onion_keys))
    /\ connection' = SubSeq(connection, 9 + u32_from_be_bytes(SubSeq(connection, 5, 8)),
                            Len(connection))
    /\ UNCHANGED <<tx, rx, sent, ntruVars, onionVars, nodeVars, callVars>>

ChanNext == NtruKeyPair_new \/ Channel_open \/ Channel_send \/ Channel_recv

SpecChan == ChanInit /\ [][ChanNext]_vars

(***************************************************************************)
(* The nodes as a state machine: a thread calls Host::create_circuit,      *)
(* other threads call Host::create_channel, Directory::generate_relay and  *)
(* start a relay's listener and packet handler, packets arrive on the      *)
(* relay's mpsc channel and channels are entered in its channel table.     *)
(***************************************************************************)

NodeInit ==
    /\ host_pc = "idle"
    /\ NodeStart
    /\ NtruIdle
    /\ OnionIdle
    /\ ChanIdle
    /\ CallIdle

\* Host::create_circuit, line 95: self.circuit_table.lock().unwrap()
create_circuit_lock_circuits ==
    /\ host_pc = "idle"
    /\ host_locks.circuit_table = Unlocked
    /\ host_locks' = [host_locks EXCEPT !.circuit_table.owner = "create_circuit"]
    /\ host_pc' = "line_96"
    /\ UNCHANGED <<host_keys, circuit_table, host_channels, directory, relays, conns,
                   ntruVars, onionVars, chanVars, callVars>>

\* Host::create_circuit, lines 96-101: self.channels.lock().unwrap(), which
\* panics on a mutex a panic of create_channel has poisoned, then
\* generate_onion_keys(1024)
create_circuit_lock_channels ==
    /\ host_pc = "line_96"
    /\ host_locks.channels.owner = "none"
    /\ IF host_locks.channels.poisoned
       THEN /\ host_pc' = "panicked"
            /\ host_locks' = [host_locks EXCEPT
                                 !.circuit_table = [owner |-> "none", poisoned |-> TRUE]]
            /\ UNCHANGED host_keys
       ELSE /\ host_pc' = "line_104"
            /\ host_locks' = [host_locks EXCEPT !.channels.owner = "create_circuit"]
            /\ host_keys' = generate_onion_keys(1024)
    /\ UNCHANGED <<circuit_table, host_channels, directory, relays, conns,
                   ntruVars, onionVars, chanVars, callVars>>

\* Host::generate_new_circuit_id, called at line 104 of create_circuit: line 62
\* locks circuit_table, which the calling thread holds since line 95.  Locking
\* a std Mutex again on the thread that holds it does not return: it deadlocks
\* or panics.  A panic unwinds create_circuit and poisons both mutexes.
generate_new_circuit_id ==
    /\ host_pc = "line_104"
    /\ host_locks.circuit_table.owner = "create_circuit"
    /\ \/ /\ host_pc' = "deadlocked"
          /\ host_locks' = host_locks
       \/ /\ host_pc' = "panicked"
          /\ host_locks' = [circuit_table |-> [owner |-> "none", poisoned |-> TRUE],
                            channels |-> [owner |-> "none", poisoned |-> TRUE]]
    /\ UNCHANGED <<host_keys, circuit_table, host_channels, directory, relays, conns,
                   ntruVars, onionVars, chanVars, callVars>>

\* the ids on which the loop of generate_new_circuit_id ends: a random u32
\* that is not in used_circuit_ids of the circuit table
generate_new_circuit_id_draws(circuits) == NodeCircIds \ circuits.used_circuit_ids

\* the relays listening on a port
Listening(port) == {r \in RelayIds : relays[r].listening /\ relays[r].port = port}

\* Host::create_channel(circuit_id, port, id_key, onion_keys), called on its
\* own: it waits for the channels mutex; TcpStream::connect(..).unwrap()
\* panics, holding the mutex, when nothing listens on the port
create_channel(circuit_id, port) ==
    /\ host_pc # "off"
    /\ conns < MaxConns
    /\ host_locks.channels = Unlocked
    /\ conns' = conns + 1
    /\ IF Listening(port) = {}
       THEN /\ host_locks' = [host_locks EXCEPT !.channels.poisoned = TRUE]
            /\ UNCHANGED <<host_channels, relays>>
       ELSE /\ host_channels' =
                   (circuit_id :> Channel_new(<<"id_key_pub", port>>, IdKey("host").private,
                                              generate_onion_keys(1024), conns + 1))
                   @@ host_channels
            /\ relays' = [r \in RelayIds |->
                             IF r \in Listening(port)
                             THEN [relays[r] EXCEPT !.backlog = Append(@, conns + 1)]
                             ELSE relays[r]]
            /\ UNCHANGED host_locks
    /\ UNCHANGED <<host_pc, host_keys, circuit_table, directory,
                   ntruVars, onionVars, chanVars, callVars>>

\* Directory::generate_relay(directory): a port not in used_ports, the next
\* relay id; the Relay it constructs is dropped when the function returns
generate_relay ==
    /\ host_pc # "off"
    /\ directory.next_relay_id < MaxRelays
    /\ \E port \in Ports \ directory.used_ports :
          directory' = Directory_generate_relay(directory, port)
    /\ UNCHANGED <<host_pc, host_keys, host_locks, circuit_table, host_channels, relays,
                   conns, ntruVars, onionVars, chanVars, callVars>>

\* Relay::start_listener: the spawned thread binds the port
Relay_start_listener(r) ==
    /\ host_pc # "off"
    /\ ~relays[r].listening
    /\ relays' = [relays EXCEPT ![r].listening = TRUE]
    /\ UNCHANGED <<host_pc, host_keys, host_locks, circuit_table, host_channels,
                   directory, conns, ntruVars, onionVars, chanVars, callVars>>

\* one turn of the loop of Relay::start_listener: listener.accept() returns a
\* connection, its address is printed and the socket is dropped
Relay_accept(r) ==
    /\ relays[r].listening
    /\ relays[r].backlog # <<>>
    /\ relays' = [relays EXCEPT ![r].backlog = Tail(@),
                                ![r].accepted = @ \cup {Head(relays[r].backlog)}]
    /\ UNCHANGED <<host_pc, host_keys, host_locks, circuit_table, host_channels,
                   directory, conns, ntruVars, onionVars, chanVars, callVars>>

\* Relay::start_packet_handler: the spawned thread locks packet_receiver and
\* waits in receiver.recv()
Relay_start_packet_handler(r) ==
    /\ host_pc # "off"
    /\ relays[r].handler = "none"
    /\ relays' = [relays EXCEPT ![r].handler = "waiting"]
    /\ UNCHANGED <<host_pc, host_keys, host_locks, circuit_table, host_channels,
                   directory, conns, ntruVars, onionVars, chanVars, callVars>>

\* packet_sender.send(packet): a packet is put on the relay's mpsc channel,
\* as the reader thread of a Channel does with what it received
Deliver(r, packet) ==
    /\ host_pc # "off"
    /\ Len(relays[r].inbox) + Len(relays[r].handled) < MaxCells
    /\ relays' = [relays EXCEPT ![r].inbox = Append(@, packet)]
    /\ UNCHANGED <<host_pc, host_keys, host_locks, circuit_table, host_channels,
                   directory, conns, ntruVars, onionVars, chanVars, callVars>>

\* a Channel is entered in the relay's channel table under circuit id c,
\* through the public field Relay.channels
RegisterChannel(r, c) ==
    /\ host_pc # "off"
    /\ ~relays[r].poisoned
    /\ c \notin DOMAIN relays[r].channels
    /\ relays' = [relays EXCEPT
                     ![r].channels = (c :> Channel_new(<<"id_key_pub", "peer">>,
                                                       relays[r].id_key.private, <<>>, 0))
                                     @@ @]
    /\ UNCHANGED <<host_pc, host_keys, host_locks, circuit_table, host_channels,
                   directory, conns, ntruVars, onionVars, chanVars, callVars>>

\* Relay::handle_create / handle_created on a relay whose packet is taken off
\* the queue: self.channels.lock().unwrap() panics on a poisoned mutex,
\* channels.get_mut(&payload.circuit_id).unwrap() panics, holding the mutex,
\* when the table has no entry; otherwise the key is pushed.  The payloads
\* have no circuit_id field: the id looked up is that of the packet's header.
handle_create_or_created(rel, packet) ==
    IF rel.poisoned THEN [rel EXCEPT !.handler = "dead"]
    ELSE IF packet.header.circ_id \notin DOMAIN rel.channels
    THEN [rel EXCEPT !.handler = "dead", !.poisoned = TRUE]
    ELSE IF packet.msg.variant = "Create"
    THEN [rel EXCEPT !.channels[packet.header.circ_id].backward_onion_keys =
                         Append(@, packet.msg.body)]
    ELSE [rel EXCEPT !.channels[packet.header.circ_id].forward_onion_keys =
                         Append(@, packet.msg.body)]

\* Relay::handle_packet(packet): the match on the message; handle_extend,
\* handle_extended, handle_begin and handle_data are todo!(), which panics
handle_packet(rel, packet) ==
    IF packet.msg.variant \in {"Create", "Created"}
    THEN handle_create_or_created(rel, packet)
    ELSE [rel EXCEPT !.handler = "dead"]

\* the packet is off the queue and noted as taken
take_packet(rel) ==
    [rel EXCEPT !.inbox = Tail(@),
                !.handled = Append(@, [variant |-> Head(rel.inbox).msg.variant,
                                       circ_id |-> Head(rel.inbox).header.circ_id,
                                       body |-> Head(rel.inbox).msg.body,
                                       in_table |-> Head(rel.inbox).header.circ_id
                                                        \in DOMAIN rel.channels,
                                       panicked |-> FALSE])]

\* whether handle_packet panicked on the packet taken last
note_outcome(rel) ==
    [rel EXCEPT !.handled[Len(rel.handled)].panicked = (rel.handler = "dead")]

\* one turn of the loop of Relay::start_packet_handler: receiver.recv()
\* returns a packet and handle_packet runs on it
Relay_handle_packet(r) ==
    /\ relays[r].handler = "waiting"
    /\ relays[r].inbox # <<>>
    /\ relays' = [relays EXCEPT
                     ![r] = note_outcome(handle_packet(take_packet(relays[r]),
                                                       Head(relays[r].inbox)))]
    /\ UNCHANGED <<host_pc, host_keys, host_locks, circuit_table, host_channels,
                   directory, conns, ntruVars, onionVars, chanVars, callVars>>

\* the steps of the thread inside Host::create_circuit
create_circuit_step ==
    \/ create_circuit_lock_channels
    \/ generate_new_circuit_id

NodeNext ==
    \/ create_circuit_lock_circuits
    \/ create_circuit_step
    \/ \E c \in ChannelCircIds, port \in ConnectPorts : create_channel(c, port)
    \/ generate_relay
    \/ \E r \in RelayIds :
          \/ Relay_start_listener(r)
          \/ Relay_accept(r)
          \/ Relay_start_packet_handler(r)
          \/ \E packet \in NodePackets : Deliver(r, packet)
          \/ \E c \in ChannelCircIds : RegisterChannel(r, c)
          \/ Relay_handle_packet(r)

SpecNode == NodeInit /\ [][NodeNext]_vars

\* the steps of the nodes while a circuit is built and no relay sends a cell:
\* the relays listen and accept, no packet reaches a packet handler
AwaitNext ==
    \/ create_circuit_lock_circuits
    \/ create_circuit_step
    \/ \E c \in ChannelCircIds, port \in ConnectPorts : create_channel(c, port)
    \/ generate_relay
    \/ \E r \in RelayIds :
          \/ Relay_start_listener(r)
          \/ Relay_accept(r)

\* the threads are scheduled: a step that can be taken is taken
SpecAwait == NodeInit /\ [][AwaitNext]_vars /\ WF_vars(AwaitNext)

(***************************************************************************)
(* The reader threads of a node: a relay holds two Channels in its channel *)
(* table, Channel::start_listener has been called on both and the packet   *)
(* handler is started.  The peers write cells to the two connections or    *)
(* close them; each reader thread loops over Channel::recv and             *)
(* packet_sender.send; the packet handler takes the packets.               *)
(*                                                                         *)
(* rx, connection and sent are here functions of the circuit id: the       *)
(* receiving Channel with its reader thread, the TcpStream and what the    *)
(* peer wrote to it.                                                       *)
(***************************************************************************)

\* the relay whose readers run
ReaderRelay == CHOOSE r \in RelayIds : TRUE

\* the identity key pairs of that relay
ReaderKeyPairs ==
    UNION {NtruKeyPairs_of(SampleF(shuffle_f)) : shuffle_f \in ReaderShuffles}

\* well-formed cells a peer writes: Relay cells the scaled N has room for
GoodCells == {Data(<<72>>), Begin(TRUE)}

\* buffers a peer encrypts under the relay's identity key that are no
\* message: an unknown message tag, an unknown relay tag
BadBuffers == {<<9>>, <<MESSAGE_RELAY, 9>>}

\* message bytes that are no NTRU ciphertext of the relay: a length that is
\* no multiple of 4, and the zero polynomial
BadCiphertexts == {<<1, 2, 3>>, <<0, 0, 0, 0>>}

\* the Channel of circuit c with its reader thread
ReaderChannel(k_priv) ==
    [backward_id_key |-> k_priv, backward_onion_keys |-> <<>>,
     reader |-> "running", taken |-> 0]

ReaderInit ==
    /\ ntru_pc = "keyed"
    /\ keypair \in ReaderKeyPairs
    /\ plain = <<>>
    /\ cipher = NoPoly
    /\ decrypted = <<>>
    /\ chan_pc = "readers"
    /\ tx = NoChannel
    /\ rx = [c \in NodeCircIds |-> ReaderChannel(keypair.private)]
    /\ connection = [c \in NodeCircIds |-> [bytes |-> <<>>, eof |-> FALSE]]
    /\ sent = [c \in NodeCircIds |-> <<>>]
    /\ received = NoPacket
    /\ host_pc = "off"
    /\ host_keys = <<>>
    /\ host_locks = [circuit_table |-> Unlocked, channels |-> Unlocked]
    /\ circuit_table = CircuitTable_new
    /\ host_channels = <<>>
    /\ directory = Directory_new
    /\ relays = [r \in RelayIds |->
                    [Relay_new(r, RelayPort(r)) EXCEPT
                        !.handler = "waiting",
                        !.channels = [c \in NodeCircIds |->
                                         Channel_new(<<"id_key_pub", "peer">>,
                                                     <<"id_key_priv", <<"relay", r>>>>,
                                                     <<>>, 0)]]]
    /\ conns = 0
    /\ OnionIdle
    /\ CallIdle

\* the cells written so far on all connections
CellsWritten == Len(sent[7]) + Len(sent[66051])

\* connection.write(&bytes) at the peer
Peer_write(c, kind, msg, bytes) ==
    /\ bytes.ok
    /\ connection' = [connection EXCEPT ![c].bytes = @ \o bytes.val]
    /\ sent' = [sent EXCEPT ![c] = Append(@, [kind |-> kind, msg |-> msg])]

\* the peer of channel c calls Channel::send(c, msg) with a well-formed cell
PeerSend(c) ==
    /\ chan_pc = "readers"
    /\ ~connection[c].eof
    /\ CellsWritten < MaxCells
    /\ \E msg \in GoodCells, shuffle_r \in ReaderShuffles :
          Peer_write(c, "good", msg,
                     OnionPacket_to_be_bytes(build_packet(c, msg), keypair.public,
                                             <<>>, shuffle_r))
    /\ UNCHANGED <<chan_pc, tx, rx, received, ntruVars, onionVars, nodeVars, callVars>>

\* the peer of channel c writes a framed cell that is no message
PeerSendBad(c) ==
    /\ chan_pc = "readers"
    /\ ~connection[c].eof
    /\ CellsWritten < MaxCells
    /\ \/ \E buf \in BadBuffers, shuffle_r \in ReaderShuffles :
             Peer_write(c, "bad", buf,
                        OnionPacket_frame(c, add_quantum_onion_skin(buf, keypair.public,
                                                                    shuffle_r)))
       \/ \E bytes \in BadCiphertexts :
             Peer_write(c, "bad", bytes, OnionPacket_frame(c, [ok |-> TRUE, val |-> bytes]))
    /\ UNCHANGED <<chan_pc, tx, rx, received, ntruVars, onionVars, nodeVars, callVars>>

\* the peer of channel c closes the connection
PeerClose(c) ==
    /\ chan_pc = "readers"
    /\ ~connection[c].eof
    /\ connection' = [connection EXCEPT ![c].eof = TRUE]
    /\ UNCHANGED <<chan_pc, tx, rx, sent, received, ntruVars, onionVars, nodeVars, callVars>>

\* the three read_exact calls of Channel::recv have their bytes
Reader_frame_ready(bytes) ==
    /\ Len(bytes) >= 8
    /\ Len(bytes) >= 8 + u32_from_be_bytes(SubSeq(bytes, 5, 8))

\* the end of one turn of the loop of Channel::start_listener: the packet
\* is sent to the packet handler, or Message::from_be_bytes has panicked
Reader_outcome(c, circ_id, msg) ==
    IF msg.ok
    THEN /\ relays' = [relays EXCEPT
                          ![ReaderRelay].inbox = Append(@, build_packet(circ_id, msg.val))]
         /\ rx' = [rx EXCEPT ![c].taken = @ + 1]
    ELSE /\ relays' = relays
         /\ rx' = [rx EXCEPT ![c].taken = @ + 1, ![c].reader = "from_be_bytes_panicked"]

\* one turn of the loop of Channel::start_listener on channel c with a whole
\* cell on the connection
Reader_recv(c) ==
    /\ chan_pc = "readers"
    /\ rx[c].reader = "running"
    /\ Reader_frame_ready(connection[c].bytes)
    /\ Reader_outcome(
           c, u32_from_be_bytes(SubSeq(connection[c].bytes, 1, 4)),
           Message_from_be_bytes(
               SubSeq(connection[c].bytes, 9,
                      8 + u32_from_be_bytes(SubSeq(connection[c].bytes, 5, 8))),
               rx[c].backward_id_key, rx[c].backward_onion_keys))
    /\ connection' = [connection EXCEPT
                         ![c].bytes = SubSeq(@, 9 + u32_from_be_bytes(SubSeq(@, 5, 8)),
                                             Len(@))]
    /\ UNCHANGED <<chan_pc, tx, sent, received, host_pc, host_keys, host_locks,
                   circuit_table, host_channels, directory, conns,
                   ntruVars, onionVars, callVars>>

\* one turn of the loop on a closed connection: read_exact returns
\* UnexpectedEof and the unwrap panics
Reader_eof(c) ==
    /\ chan_pc = "readers"
    /\ rx[c].reader = "running"
    /\ connection[c].eof
    /\ ~Reader_frame_ready(connection[c].bytes)
    /\ rx' = [rx EXCEPT ![c].reader = "read_exact_panicked"]
    /\ UNCHANGED <<chan_pc, tx, connection, sent, received, ntruVars, onionVars,
                   nodeVars, callVars>>

\* the packet handler of the relay
Reader_dispatch ==
    /\ chan_pc = "readers"
    /\ Relay_handle_packet(ReaderRelay)

ReaderNext ==
    \/ \E c \in NodeCircIds :
          \/ PeerSend(c)
          \/ PeerSendBad(c)
          \/ PeerClose(c)
          \/ Reader_recv(c)
          \/ Reader_eof(c)
    \/ Reader_dispatch

SpecReader == ReaderInit /\ [][ReaderNext]_vars

(***************************************************************************)
(* The choice of the relays of a circuit: the directory is filled by       *)
(* Directory::generate_relay, then the statements of Host::create_circuit  *)
(* that choose a relay run CIRCUIT_LENGTH times: get_random_relay on the   *)
(* exclude list, and the insertion of the chosen relay's id into it.       *)
(* call_args is the exclude list, call_ret the relays chosen so far, each  *)
(* with the exclude list it was chosen under.                              *)
(***************************************************************************)

SelectInit ==
    /\ call_pc = "setup"
    /\ call_args = {}
    /\ call_ret = <<>>
    /\ host_pc = "off"
    /\ NodeStart
    /\ NtruIdle
    /\ OnionIdle
    /\ ChanIdle

\* Directory::generate_relay before the relays are chosen
Select_generate_relay ==
    /\ call_pc = "setup"
    /\ directory.next_relay_id < MaxRelays
    /\ \E port \in Ports \ directory.used_ports :
          directory' = Directory_generate_relay(directory, port)
    /\ UNCHANGED <<host_pc, host_keys, host_locks, circuit_table, host_channels, relays,
                   conns, ntruVars, onionVars, chanVars, callVars>>

\* let mut exclude_list: HashSet<u32> = HashSet::new()
Select_start ==
    /\ call_pc = "setup"
    /\ call_pc' = "choosing"
    /\ call_args' = {}
    /\ UNCHANGED <<call_ret, ntruVars, onionVars, chanVars, nodeVars>>

\* the condition of the while loop of get_random_relay on the key drawn
get_random_relay_loop_never(exclude_list, key) == FALSE

get_random_relay_loop(exclude_list, key) == key \in exclude_list

\* Directory::get_random_relay(exclude_list) and the unwrap of its result:
\* None on an empty directory; otherwise keys are drawn until one is not in
\* exclude_list, and the info stored under it is returned
get_random_relay ==
    /\ call_pc = "choosing"
    /\ IF directory.relays = <<>>
       THEN /\ call_pc' = "unwrap_panicked"
            /\ UNCHANGED <<call_args, call_ret>>
       ELSE \E key \in DOMAIN directory.relays :
               IF get_random_relay_loop(call_args, key)
               THEN UNCHANGED <<call_pc, call_args, call_ret>>
               ELSE /\ call_pc' = "chosen"
                    /\ call_ret' = Append(call_ret, [id |-> key,
                                                     info |-> directory.relays[key],
                                                     exclude_list |-> call_args])
                    /\ UNCHANGED call_args
    /\ UNCHANGED <<ntruVars, onionVars, chanVars, nodeVars>>

\* exclude_list.insert(relay.id), and the next turn of the loop over the hops
exclude_list_insert ==
    /\ call_pc = "chosen"
    /\ call_args' = call_args \cup {call_ret[Len(call_ret)].id}
    /\ call_pc' = IF Len(call_ret) = CIRCUIT_LENGTH THEN "all_chosen" ELSE "choosing"
    /\ UNCHANGED <<call_ret, ntruVars, onionVars, chanVars, nodeVars>>

SelectNext ==
    \/ Select_generate_relay
    \/ Select_start
    \/ get_random_relay
    \/ exclude_list_insert

SpecSelect == SelectInit /\ [][SelectNext]_vars


\* the thread that builds the circuit is scheduled, and a key outside the
\* exclude list is drawn at some turn of the loop when there is one
SpecSelectFair == SelectInit /\ [][SelectNext]_vars /\ WF_vars(SelectNext)
(***************************************************************************)
(* Concurrent registrations: threads that share the Arc<RwLock<Directory>> *)
(* call Directory::generate_relay, and look relays up between the calls.   *)
(* call_pc is the position of each thread in generate_relay; call_args     *)
(* holds the owner of the write lock and the locals (port, id) of each     *)
(* thread; call_ret holds the log of the calls that returned (the id       *)
(* returned, the port and the identity key of the relay built) and the     *)
(* last answer of get_relay_info.                                          *)
(***************************************************************************)

\* the threads that register relays
RegisterThreads == {"t1", "t2"}

RegisterInit ==
    /\ call_pc = [t \in RegisterThreads |-> "start"]
    /\ call_args = [owner |-> "none",
                    port |-> [t \in RegisterThreads |-> 0],
                    id |-> [t \in RegisterThreads |-> 0]]
    /\ call_ret = [log |-> <<>>, found |-> <<>>]
    /\ NodeIdle
    /\ NtruIdle
    /\ OnionIdle
    /\ ChanIdle

\* let mut dir = directory.write().unwrap(): taken when no guard is held
Register_write(t) ==
    /\ call_pc[t] = "start"
    /\ directory.next_relay_id < MaxRelays
    /\ call_args.owner = "none"
    /\ call_args' = [call_args EXCEPT !.owner = t]
    /\ call_pc' = [call_pc EXCEPT ![t] = "write_locked"]
    /\ UNCHANGED <<call_ret, ntruVars, onionVars, chanVars, nodeVars>>

\* let (mut port, id) = (Self::random_high_port(), dir.next_relay_id)
Register_random_high_port(t) ==
    /\ call_pc[t] = "write_locked"
    /\ \E port \in Ports :
          call_args' = [call_args EXCEPT !.port[t] = port,
                                         !.id[t] = directory.next_relay_id]
    /\ call_pc' = [call_pc EXCEPT ![t] = "port_drawn"]
    /\ UNCHANGED <<call_ret, ntruVars, onionVars, chanVars, nodeVars>>

\* the condition of the while loop of generate_relay, taken as never true
used_ports_contains_never(dir, port) == FALSE

\* dir.used_ports.contains(&port)
used_ports_contains(dir, port) == port \in dir.used_ports

\* the rest of generate_relay: while the port is in used_ports another one
\* is drawn; then the port is inserted, the relay is built and stored under
\* id, next_relay_id is incremented, id is returned and the guard dropped
Register_insert(t) ==
    /\ call_pc[t] = "port_drawn"
    /\ IF used_ports_contains(directory, call_args.port[t])
       THEN /\ \E port \in Ports : call_args' = [call_args EXCEPT !.port[t] = port]
            /\ UNCHANGED <<call_pc, call_ret, directory>>
       ELSE /\ directory' = Directory_generate_relay(directory, call_args.port[t])
            /\ call_ret' = [call_ret EXCEPT
                   !.log = Append(@, [id |-> call_args.id[t],
                                      port |-> call_args.port[t],
                                      id_key_pub |-> IdKey(<<"relay", call_args.id[t]>>).public])]
            /\ call_args' = [call_args EXCEPT !.owner = "none"]
            /\ call_pc' = [call_pc EXCEPT ![t] = "start"]
    /\ UNCHANGED <<host_pc, host_keys, host_locks, circuit_table, host_channels, relays,
                   conns, ntruVars, onionVars, chanVars>>

\* Directory::get_relay_info(id): self.relays.get(&id)
get_relay_info(dir, id) ==
    IF id \in DOMAIN dir.relays THEN <<"Some", dir.relays[id]>> ELSE <<"None">>

\* directory.read().unwrap().get_relay_info(id) on an id a call returned
Register_get_relay_info ==
    /\ call_args.owner = "none"
    /\ \E k \in 1..Len(call_ret.log) :
          call_ret' = [call_ret EXCEPT
              !.found = <<call_ret.log[k].id, get_relay_info(directory, call_ret.log[k].id)>>]
    /\ UNCHANGED <<call_pc, call_args, ntruVars, onionVars, chanVars, nodeVars>>

RegisterNext ==
    \/ \E t \in RegisterThreads : Register_write(t)
    \/ \E t \in RegisterThreads : Register_random_high_port(t)
    \/ \E t \in RegisterThreads : Register_insert(t)
    \/ Register_get_relay_info

SpecRegister == RegisterInit /\ [][RegisterNext]_vars
(***************************************************************************)
(* Host::create_channel statement by statement, beside the thread of       *)
(* Host::create_circuit and a relay's listener: the lock of the channel    *)
(* table, the connection, the insertion.  call_pc is the line at which the *)
(* thread of create_channel stands, call_args its arguments, call_ret the  *)
(* number of the connection it made.                                       *)
(***************************************************************************)

LocksInit ==
    /\ call_pc = "start"
    /\ call_args = <<>>
    /\ call_ret = <<>>
    /\ host_pc = "idle"
    /\ NodeStart
    /\ NtruIdle
    /\ OnionIdle
    /\ ChanIdle

\* Host::create_channel, line 79: let mut channels = self.channels.lock().unwrap(),
\* which panics on a poisoned mutex
create_channel_lock(circuit_id, port) ==
    /\ call_pc = "start"
    /\ host_locks.channels.owner = "none"
    /\ IF host_locks.channels.poisoned
       THEN /\ call_pc' = "panicked"
            /\ UNCHANGED host_locks
       ELSE /\ call_pc' = "line_80"
            /\ host_locks' = [host_locks EXCEPT !.channels.owner = "create_channel"]
    /\ call_args' = [circuit_id |-> circuit_id, port |-> port]
    /\ UNCHANGED <<call_ret, host_pc, host_keys, circuit_table, host_channels, directory,
                   relays, conns, ntruVars, onionVars, chanVars>>

\* line 80: TcpStream::connect(format!("{LOCALHOST}:{port}")).unwrap(); the
\* panic of unwrap drops the guard and poisons the mutex
create_channel_connect ==
    /\ call_pc = "line_80"
    /\ conns < MaxConns
    /\ conns' = conns + 1
    /\ IF Listening(call_args.port) = {}
       THEN /\ call_pc' = "panicked"
            /\ host_locks' = [host_locks EXCEPT
                                 !.channels = [owner |-> "none", poisoned |-> TRUE]]
            /\ UNCHANGED <<call_ret, relays>>
       ELSE /\ call_pc' = "line_82"
            /\ call_ret' = conns + 1
            /\ relays' = [r \in RelayIds |->
                             IF r \in Listening(call_args.port)
                             THEN [relays[r] EXCEPT !.backlog = Append(@, conns + 1)]
                             ELSE relays[r]]
            /\ UNCHANGED host_locks
    /\ UNCHANGED <<call_args, host_pc, host_keys, circuit_table, host_channels, directory,
                   ntruVars, onionVars, chanVars>>

\* lines 82-91: the Channel is built and inserted, and the guard is dropped
\* when the function returns
create_channel_insert ==
    /\ call_pc = "line_82"
    /\ host_channels' =
           (call_args.circuit_id :>
                Channel_new(<<"id_key_pub", call_args.port>>, IdKey("host").private,
                            generate_onion_keys(1024), call_ret))
           @@ host_channels
    /\ host_locks' = [host_locks EXCEPT !.channels.owner = "none"]
    /\ call_pc' = "returned"
    /\ UNCHANGED <<call_args, call_ret, host_pc, host_keys, circuit_table, directory,
                   relays, conns, ntruVars, onionVars, chanVars>>

LocksNext ==
    \/ \E c \in NodeCircIds, port \in Ports : create_channel_lock(c, port)
    \/ create_channel_connect
    \/ create_channel_insert
    \/ create_circuit_lock_circuits
    \/ create_circuit_lock_channels
    \/ generate_new_circuit_id
    \/ \E r \in RelayIds : Relay_start_listener(r)
    \/ \E r \in RelayIds : Relay_accept(r)

SpecLocks == LocksInit /\ [][LocksNext]_vars
(***************************************************************************)
(* One Channel used in both directions: Channel::start_listener has        *)
(* spawned the reader thread on a clone of the Channel, which shares the   *)
(* Arc<Mutex<TcpStream>> of connection, and another thread of the node     *)
(* calls Channel::send on it while the peer writes cells.  connection      *)
(* holds the owner of the mutex, the bytes the peer wrote and the bytes    *)
(* the node wrote; rx.reader is the line of the reader thread, chan_pc     *)
(* that of the sending thread, tx.bytes the cell it has built.             *)
(***************************************************************************)

DuplexInit ==
    /\ ntru_pc = "keyed"
    /\ keypair = CHOOSE pair \in ReaderKeyPairs : TRUE
    /\ plain = <<>>
    /\ cipher = NoPoly
    /\ decrypted = <<>>
    /\ chan_pc = "idle"
    /\ tx = [forward_id_key |-> keypair.public, forward_onion_keys |-> <<>>, bytes |-> <<>>]
    /\ rx = [backward_id_key |-> keypair.private, backward_onion_keys |-> <<>>,
             reader |-> "line_30", taken |-> 0]
    /\ connection = [owner |-> "none", poisoned |-> FALSE, inbound |-> <<>>,
                     cells |-> 0, outbound |-> <<>>]
    /\ sent = NoPacket
    /\ received = NoPacket
    /\ OnionIdle
    /\ NodeIdle
    /\ CallIdle

\* the peer's Channel::send: a well-formed cell arrives on the connection
Duplex_peer_send ==
    /\ connection.cells < MaxCells
    /\ \E c \in NodeCircIds, msg \in GoodCells, shuffle_r \in ReaderShuffles :
          connection' = [connection EXCEPT
              !.inbound = @ \o OnionPacket_to_be_bytes(build_packet(c, msg), keypair.public,
                                                       <<>>, shuffle_r).val,
              !.cells = @ + 1]
    /\ UNCHANGED <<chan_pc, tx, rx, sent, received, ntruVars, onionVars, nodeVars, callVars>>

\* Channel::recv, line 48, in the reader thread: self.connection.lock().unwrap()
Duplex_recv_lock ==
    /\ rx.reader = "line_30"
    /\ connection.owner = "none"
    /\ IF connection.poisoned
       THEN rx' = [rx EXCEPT !.reader = "panicked"] /\ UNCHANGED connection
       ELSE /\ rx' = [rx EXCEPT !.reader = "line_52"]
            /\ connection' = [connection EXCEPT !.owner = "reader"]
    /\ UNCHANGED <<chan_pc, tx, sent, received, ntruVars, onionVars, nodeVars, callVars>>

\* Channel::recv, lines 52-69, and line 32 of start_listener: the three
\* read_exact calls return once a whole cell is on the connection; the guard
\* is dropped when recv returns or Message::from_be_bytes panics
Duplex_recv_read ==
    /\ rx.reader = "line_52"
    /\ Reader_frame_ready(connection.inbound)
    /\ LET msg_len == u32_from_be_bytes(SubSeq(connection.inbound, 5, 8))
           msg == Message_from_be_bytes(SubSeq(connection.inbound, 9, 8 + msg_len),
                                        rx.backward_id_key, rx.backward_onion_keys)
       IN  /\ connection' = [connection EXCEPT
                                !.inbound = SubSeq(@, 9 + msg_len, Len(@)),
                                !.owner = "none",
                                !.poisoned = ~msg.ok]
           /\ IF msg.ok
              THEN /\ received' = build_packet(u32_from_be_bytes(SubSeq(connection.inbound, 1, 4)),
                                               msg.val)
                   /\ rx' = [rx EXCEPT !.reader = "line_30", !.taken = @ + 1]
              ELSE /\ received' = received
                   /\ rx' = [rx EXCEPT !.reader = "panicked"]
    /\ UNCHANGED <<chan_pc, tx, sent, ntruVars, onionVars, nodeVars, callVars>>

\* Channel::send, lines 37-41: the packet is built and made into bytes
Duplex_send_build ==
    /\ chan_pc = "idle"
    /\ \E id \in NodeCircIds, msg \in GoodCells, shuffle_r \in ReaderShuffles :
          LET bytes == OnionPacket_to_be_bytes(build_packet(id, msg), tx.forward_id_key,
                                               tx.forward_onion_keys, shuffle_r)
          IN  /\ sent' = build_packet(id, msg)
              /\ IF bytes.ok
                 THEN tx' = [tx EXCEPT !.bytes = bytes.val] /\ chan_pc' = "line_43"
                 ELSE tx' = tx /\ chan_pc' = "send_panicked"
    /\ UNCHANGED <<rx, connection, received, ntruVars, onionVars, nodeVars, callVars>>

\* Channel::send, lines 43-44: self.connection.lock().unwrap(), taken when no
\* guard is held, then connection.write(&bytes); the guard is dropped at the
\* end of send
Duplex_send_write ==
    /\ chan_pc = "line_43"
    /\ connection.owner = "none"
    /\ IF connection.poisoned
       THEN chan_pc' = "send_panicked" /\ UNCHANGED connection
       ELSE /\ chan_pc' = "returned"
            /\ connection' = [connection EXCEPT !.outbound = @ \o tx.bytes]
    /\ UNCHANGED <<tx, rx, sent, received, ntruVars, onionVars, nodeVars, callVars>>

\* the thread that sends calls Channel::send again
Duplex_send_again ==
    /\ chan_pc = "returned"
    /\ connection.outbound = <<>> \/ Len(connection.outbound) < 2 * Len(tx.bytes)
    /\ chan_pc' = "idle"
    /\ UNCHANGED <<tx, rx, connection, sent, received, ntruVars, onionVars, nodeVars,
                   callVars>>

DuplexNext ==
    \/ Duplex_peer_send
    \/ Duplex_recv_lock
    \/ Duplex_recv_read
    \/ Duplex_send_build
    \/ Duplex_send_write
    \/ Duplex_send_again

SpecDuplex == DuplexInit /\ [][DuplexNext]_vars
(***************************************************************************)
(* TCP RECEIVE BUFFER  (network_stacks/tcp/buffers/receive_buffer.rs)      *)
(*                                                                         *)
(* The sizes are scaled: sequence numbers are taken modulo SEQ_SPACE for   *)
(* the 2^32 of u32, the buffer has RECEIVE_BUFFER_SIZE slots and the       *)
(* window RECEIVE_WINDOW_SIZE, about half of it as in the source.  A slot  *)
(* of data holds NoByte for None.                                          *)
(***************************************************************************)

\* the size of the sequence space, 2^32 in the source
SEQ_SPACE == 16

RECEIVE_BUFFER_SIZE == 5

RECEIVE_WINDOW_SIZE == 3

NoByte == CHOOSE b \in {0} : TRUE

\* u32::wrapping_add and wrapping_sub
wrapping_add(a, b) == (a + b) % SEQ_SPACE

wrapping_sub(a, b) == (a - b + SEQ_SPACE) % SEQ_SPACE

\* TcpReceiveBuffer::new(remote_sequence_number); can_read is the flag of
\* the socket that wait_to_read waits for
TcpReceiveBuffer_new(remote_sequence_number) ==
    [data |-> [i \in 0..(RECEIVE_BUFFER_SIZE - 1) |-> NoByte],
     start_index |-> 0,
     next_index |-> 0,
     is_full |-> FALSE,
     next |-> remote_sequence_number,
     window_size |-> RECEIVE_WINDOW_SIZE,
     can_read |-> FALSE]

readable_bytes(rb) ==
    IF rb.is_full THEN RECEIVE_BUFFER_SIZE
    ELSE IF rb.next_index >= rb.start_index THEN rb.next_index - rb.start_index
    ELSE rb.next_index + RECEIVE_BUFFER_SIZE - rb.start_index

\* the helper of is_valid_segment
is_between(start, end, value) ==
    IF start <= end THEN value >= start /\ value <= end
    ELSE value >= start \/ value <= end

is_valid_segment(rb, sequence_number, data) ==
    LET window_start == rb.next
        window_end == wrapping_sub(wrapping_add(rb.next, rb.window_size), 1)
        segment_start == sequence_number
        segment_end == wrapping_sub(wrapping_add(sequence_number, Len(data)), 1)
    IN  IF Len(data) = 0 /\ rb.window_size = 0 THEN sequence_number = rb.next
        ELSE IF Len(data) = 0 /\ rb.window_size > 0
        THEN is_between(window_start, window_end, segment_start)
        ELSE IF Len(data) > 0 /\ rb.window_size > 0
        THEN \/ is_between(window_start, window_end, segment_start)
             \/ is_between(window_start, window_end, segment_end)
        ELSE FALSE

\* the two for loops of receive_segment (lines 118-133): the slots written
\* with Some(data[i]); a later i overwrites an earlier one
receive_segment_write(rb, offset, overlap, data) ==
    [j \in 0..(RECEIVE_BUFFER_SIZE - 1) |->
        IF offset <= 0
        THEN IF \E i \in (-offset)..(overlap - 1) :
                    (rb.next_index + i) % RECEIVE_BUFFER_SIZE = j
             THEN data[1 + (CHOOSE i \in (-offset)..(overlap - 1) :
                      /\ (rb.next_index + i) % RECEIVE_BUFFER_SIZE = j
                      /\ \A k \in (i + 1)..(overlap - 1) :
                            (rb.next_index + k) % RECEIVE_BUFFER_SIZE # j)]
             ELSE rb.data[j]
        ELSE IF \E i \in 0..(overlap - 1) :
                    (offset + rb.next_index + i) % RECEIVE_BUFFER_SIZE = j
             THEN data[1 + (CHOOSE i \in 0..(overlap - 1) :
                      /\ (offset + rb.next_index + i) % RECEIVE_BUFFER_SIZE = j
                      /\ \A k \in (i + 1)..(overlap - 1) :
                            (offset + rb.next_index + k) % RECEIVE_BUFFER_SIZE # j)]
             ELSE rb.data[j]]

\* the while loop of receive_segment (lines 140-144)
RECURSIVE receive_segment_contiguous(_, _, _)
receive_segment_contiguous(data, rb, num_contiguous_bytes) ==
    IF /\ data[(rb.next_index + num_contiguous_bytes) % RECEIVE_BUFFER_SIZE] # NoByte
       /\ num_contiguous_bytes < rb.window_size
    THEN receive_segment_contiguous(data, rb, num_contiguous_bytes + 1)
    ELSE num_contiguous_bytes

\* receive_segment(sequence_number, data): the buffer after the call and
\* the value returned, 0 standing for None
receive_segment(rb, sequence_number, data) ==
    LET offset == sequence_number - rb.next
        overlap == IF offset <= 0
                   THEN Min(Max(Len(data) + offset, 0), rb.window_size)
                   ELSE Max(Min(Len(data), rb.window_size - offset), 0)
        written == receive_segment_write(rb, offset, overlap, data)
        num_contiguous_bytes == IF sequence_number = rb.next
                                THEN receive_segment_contiguous(written, rb, overlap)
                                ELSE 0
    IN  [rb |-> [rb EXCEPT !.data = written], new_contiguous_bytes |-> num_contiguous_bytes]

\* the for loop of slide_window (lines 161-166)
RECURSIVE slide_window_loop(_, _, _, _)
slide_window_loop(n, next_index_copy, window_size, start_index) ==
    IF n = 0 THEN window_size
    ELSE slide_window_loop(
             n - 1, (next_index_copy + 1) % RECEIVE_BUFFER_SIZE,
             IF (next_index_copy + window_size) % RECEIVE_BUFFER_SIZE = start_index
             THEN window_size - 1 ELSE window_size,
             start_index)

\* TcpReceiveBuffer::slide_window(n)
slide_window(rb, n) ==
    LET window_size == slide_window_loop(n, rb.next_index, rb.window_size, rb.start_index)
    IN  [rb EXCEPT !.next = wrapping_add(rb.next, n),
                   !.next_index = (rb.next_index + n) % RECEIVE_BUFFER_SIZE,
                   !.window_size = window_size,
                   !.is_full = IF window_size = 0 THEN TRUE ELSE rb.is_full]

\* handle_data_ack_packet, the receiving half (lines 699-715)
handle_data_ack_packet(rb, sequence_number, data) ==
    IF is_valid_segment(rb, sequence_number, data)
    THEN LET got == receive_segment(rb, sequence_number, data)
         IN  IF got.new_contiguous_bytes > 0
             THEN [slide_window(got.rb, got.new_contiguous_bytes) EXCEPT !.can_read = TRUE]
             ELSE got.rb
    ELSE rb

\* the bytes v_read copies out (lines 463-468)
v_read_bytes(rb, bytes_to_read) ==
    [i \in 1..bytes_to_read |-> rb.data[(rb.start_index + i - 1) % RECEIVE_BUFFER_SIZE]]

\* TcpNormalSocket::v_read on a buffer of len bytes, once wait_to_read has
\* returned: the receive buffer after the call
v_read(rb, len) ==
    LET bytes_to_read == Min(len, readable_bytes(rb))
        start_index == (rb.start_index + bytes_to_read) % RECEIVE_BUFFER_SIZE
    IN  [rb EXCEPT
            !.data = [j \in 0..(RECEIVE_BUFFER_SIZE - 1) |->
                         IF \E i \in 0..(bytes_to_read - 1) :
                                (rb.start_index + i) % RECEIVE_BUFFER_SIZE = j
                         THEN NoByte ELSE rb.data[j]],
            !.start_index = start_index,
            !.window_size = Min(RECEIVE_WINDOW_SIZE, rb.window_size + bytes_to_read),
            !.can_read = IF start_index = rb.next_index THEN FALSE ELSE rb.can_read,
            !.is_full = IF bytes_to_read > 0 THEN FALSE ELSE rb.is_full]

(***************************************************************************)
(* The receiving side of an established connection: the peer has written  *)
(* Stream, and any segment of it (lost, duplicated, reordered, cut at any  *)
(* two points) arrives in an ACK packet; the application calls v_read.     *)
(* call_args holds the receive buffer and the initial sequence number,     *)
(* call_ret the bytes the v_read calls returned, one after the other.      *)
(***************************************************************************)

\* the number of bytes the peer has passed to v_write; byte k has value k
StreamLen == 5

\* the longest segment and the longest buffer handed to v_read
MaxSegLen == 3

Stream == [k \in 1..StreamLen |-> k]

\* the initial sequence numbers: far from the wrap, and such that the
\* sequence numbers of the stream wrap
InitialSequenceNumbers == {0, 7, SEQ_SPACE - 3, SEQ_SPACE - 1}

TcpRecvInit ==
    /\ call_pc = "established"
    /\ \E irs \in InitialSequenceNumbers :
          call_args = [receive_buffer |-> TcpReceiveBuffer_new(irs), irs |-> irs]
    /\ call_ret = <<>>
    /\ NtruIdle
    /\ OnionIdle
    /\ ChanIdle
    /\ NodeIdle

\* handle_ack_packet in state Established on a packet that carries the
\* bytes first .. first + len - 1 of the stream
Tcp_receive(first, len) ==
    /\ call_pc = "established"
    /\ first + len - 1 <= StreamLen
    /\ call_args' = [call_args EXCEPT !.receive_buffer =
           handle_data_ack_packet(@, wrapping_add(call_args.irs, first - 1),
                                  SubSeq(Stream, first, first + len - 1))]
    /\ UNCHANGED <<call_pc, call_ret, ntruVars, onionVars, chanVars, nodeVars>>

\* v_read(&mut buffer) with buffer.len() = len; data[..].unwrap() panics on
\* a slot that holds None
Tcp_v_read(len) ==
    /\ call_pc = "established"
    /\ call_args.receive_buffer.can_read
    /\ LET bytes == v_read_bytes(call_args.receive_buffer,
                                 Min(len, readable_bytes(call_args.receive_buffer)))
       IN  IF \E i \in 1..Len(bytes) : bytes[i] = NoByte
           THEN call_pc' = "v_read_panicked" /\ UNCHANGED <<call_args, call_ret>>
           ELSE /\ call_ret' = call_ret \o bytes
                /\ call_args' = [call_args EXCEPT !.receive_buffer = v_read(@, len)]
                /\ call_pc' = call_pc
    /\ UNCHANGED <<ntruVars, onionVars, chanVars, nodeVars>>

TcpRecvNext ==
    \/ \E first \in 1..StreamLen, len \in 1..MaxSegLen : Tcp_receive(first, len)
    \/ \E len \in 1..MaxSegLen : Tcp_v_read(len)

SpecTcpRecv == TcpRecvInit /\ [][TcpRecvNext]_vars

(***************************************************************************)
(* The circuit table on its own: CircuitTable::new(), then insert and      *)
(* remove in any order with any port and any circuit id                    *)
(* (tables/circuit_table.rs).                                              *)
(***************************************************************************)

\* circuit ids handed to CircuitTable::insert
TableCircIds == NodeCircIds \cup {258}

\* CircuitTable::insert(port, circuit_id): HashMap::insert replaces the value
\* of a port that is present, HashSet::insert adds the id
CircuitTable_insert(table, port, circuit_id) ==
    [circuits |-> [d \in DOMAIN table.circuits \cup {port} |->
                      IF d = port THEN circuit_id ELSE table.circuits[d]],
     used_circuit_ids |-> table.used_circuit_ids \cup {circuit_id}]

\* CircuitTable::remove(port) -> Option<CircuitId>; self.circuits[&port]
\* panics on a port that is not a key
CircuitTable_remove(table, port) ==
    IF port \notin DOMAIN table.circuits THEN Err
    ELSE [ok |-> TRUE,
          val |-> <<"Some", table.circuits[port]>>,
          table |-> [circuits |-> [d \in DOMAIN table.circuits \ {port} |->
                                      table.circuits[d]],
                     used_circuit_ids |->
                         table.used_circuit_ids \ {table.circuits[port]}]]

TableInit ==
    /\ call_pc = "table"
    /\ call_args = <<>>
    /\ call_ret = <<>>
    /\ host_pc = "off"
    /\ NodeStart
    /\ NtruIdle
    /\ OnionIdle
    /\ ChanIdle

\* table.insert(port, circuit_id)
Table_insert(port, circuit_id) ==
    /\ call_pc = "table"
    /\ call_args' = <<"insert", port, circuit_id>>
    /\ circuit_table' = CircuitTable_insert(circuit_table, port, circuit_id)
    /\ call_ret' = <<>>
    /\ UNCHANGED <<call_pc, host_pc, host_keys, host_locks, host_channels, directory,
                   relays, conns, ntruVars, onionVars, chanVars>>

\* table.remove(port)
Table_remove(port) ==
    /\ call_pc = "table"
    /\ call_args' = <<"remove", port>>
    /\ LET removed == CircuitTable_remove(circuit_table, port)
       IN  IF removed.ok
           THEN /\ circuit_table' = removed.table
                /\ call_ret' = removed.val
                /\ UNCHANGED call_pc
           ELSE /\ call_pc' = "remove_panicked"
                /\ UNCHANGED <<circuit_table, call_ret>>
    /\ UNCHANGED <<host_pc, host_keys, host_locks, host_channels, directory,
                   relays, conns, ntruVars, onionVars, chanVars>>

TableNext ==
    \/ \E port \in Ports, circuit_id \in TableCircIds : Table_insert(port, circuit_id)
    \/ \E port \in Ports : Table_remove(port)

SpecTable == TableInit /\ [][TableNext]_vars

(***************************************************************************)
(* TCP SEND BUFFER AND RETRANSMISSION QUEUE                                *)
(* (network_stacks/tcp/buffers/send_buffer.rs, tcp_retransmission_queue.rs,*)
(* sockets/normal_socket.rs)                                               *)
(*                                                                         *)
(* The sizes are scaled as for the receive buffer.  The bytes of the send  *)
(* buffer are left out: a packet is its sequence number and the number of  *)
(* bytes it carries, which is all the queue and the window look at.        *)
(***************************************************************************)

SEND_BUFFER_SIZE == 3

MAX_SEGMENT_SIZE == 2

\* Maximum number of retransmissions before giving up
MAX_RETRANSMISSIONS == 5

\* the most bytes the application writes to the socket
MaxWrite == 2

\* the most bytes the sender thread sends, probes included
MaxSent == 3

\* the most retransmissions of a zero-window probe that are followed
MaxProbeRetransmissions == 2

\* TcpSendBuffer::new() with the initial sequence number that
\* generate_initial_sequence_number() returned
TcpSendBuffer_new(initial_sequence_number) ==
    [start_index |-> 0,
     end_index |-> 0,
     is_full |-> FALSE,
     window_size |-> <<"None">>,
     next |-> initial_sequence_number,
     unacknowledged |-> initial_sequence_number,
     initial_sequence_number |-> initial_sequence_number]

\* Option<u16>::unwrap_or(0)
unwrap_or_0(window_size) == IF window_size[1] = "Some" THEN window_size[2] ELSE 0

num_bytes_in_flight(sb) == wrapping_sub(sb.next, sb.unacknowledged)

TcpSendBuffer_next_index(sb) ==
    (sb.start_index + num_bytes_in_flight(sb)) % SEND_BUFFER_SIZE

window_end_index(sb) == (sb.start_index + unwrap_or_0(sb.window_size)) % SEND_BUFFER_SIZE

available_bytes(sb) ==
    IF sb.is_full THEN 0
    ELSE IF sb.end_index >= sb.start_index
         THEN SEND_BUFFER_SIZE - (sb.end_index - sb.start_index)
         ELSE sb.start_index - sb.end_index

occupied_bytes(sb) == SEND_BUFFER_SIZE - available_bytes(sb)

unsent_window_bytes(sb) ==
    LET end_index == IF occupied_bytes(sb) <= unwrap_or_0(sb.window_size)
                     THEN sb.end_index
                     ELSE window_end_index(sb)
    IN  IF sb.is_full /\ TcpSendBuffer_next_index(sb) = end_index THEN 0
        ELSE IF end_index >= TcpSendBuffer_next_index(sb)
             THEN end_index - TcpSendBuffer_next_index(sb)
             ELSE end_index + SEND_BUFFER_SIZE - TcpSendBuffer_next_index(sb)

\* TcpSendBuffer::push(buffer) with buffer.len() = len -> bytes_written
TcpSendBuffer_push(sb, len) ==
    LET bytes_to_write == Min(available_bytes(sb), len)
        end_index == (sb.end_index + bytes_to_write) % SEND_BUFFER_SIZE
    IN  [send_buffer |-> [sb EXCEPT !.end_index = end_index,
                                    !.is_full = @ \/ end_index = sb.start_index],
         bytes_written |-> bytes_to_write]

\* TcpSendBuffer::acknowledge(acknowledgment_number, window_size) -> Option<u16>
TcpSendBuffer_acknowledge(sb, acknowledgment_number, window_size) ==
    LET n == wrapping_sub(acknowledgment_number, sb.unacknowledged)
    IN  IF n = 0 \/ n > num_bytes_in_flight(sb)
        THEN [send_buffer |-> sb, new_acknowledged_bytes |-> <<"None">>]
        ELSE [send_buffer |-> [sb EXCEPT !.window_size = <<"Some", window_size>>],
              new_acknowledged_bytes |-> <<"Some", n>>]

\* TcpSendBuffer::slide_window(n)
TcpSendBuffer_slide_window(sb, n) ==
    [sb EXCEPT !.start_index = (@ + n) % SEND_BUFFER_SIZE,
               !.unacknowledged = wrapping_add(@, n),
               !.is_full = FALSE]

\* TcpRetransmissionQueue::push(packet, is_zero_window_probe)
TcpRetransmissionQueue_push(queue, packet, is_zero_window_probe) ==
    Append(queue, [packet |-> packet,
                   retransmissions |-> 0,
                   is_zero_window_probe |-> is_zero_window_probe])

\* the test of TcpRetransmissionQueue::acknowledge on a segment
acknowledge_covers(segment, acknowledgment_number) ==
    segment.packet.sequence_number < acknowledgment_number

\* TcpRetransmissionQueue::acknowledge(acknowledgment_number): the segments
\* the test holds for are removed, the others stay in place
TcpRetransmissionQueue_acknowledge(queue, acknowledgment_number) ==
    SelectSeq(queue, LAMBDA segment : ~acknowledge_covers(segment, acknowledgment_number))

\* the test after a retransmission that aborts the connection
retransmit_exceeded(segment) ==
    segment.retransmissions > MAX_RETRANSMISSIONS /\ ~segment.is_zero_window_probe

RECURSIVE retransmit_loop(_, _, _)
\* the loop of TcpRetransmissionQueue::retransmit from index i (counted from
\* 1), where expired holds the sequence numbers of the segments whose RTO has
\* run out: such a segment is handed to send_tcp_packet and retransmissions
\* counts it; it gets a new send_time and is no longer expired.  exceeded is
\* the segment the connection is aborted on
retransmit_loop(queue, i, expired) ==
    IF i > Len(queue) THEN [queue |-> queue, aborted |-> FALSE, exceeded |-> <<>>]
    ELSE IF queue[i].packet.sequence_number \in expired
         THEN LET segment == [queue[i] EXCEPT !.retransmissions = @ + 1]
              IN  IF retransmit_exceeded(segment)
                  THEN [queue |-> <<>>, aborted |-> TRUE, exceeded |-> <<segment>>]
                  ELSE retransmit_loop(
                           Append(SubSeq(queue, 1, i - 1) \o SubSeq(queue, i + 1, Len(queue)),
                                  segment),
                           i, expired \ {segment.packet.sequence_number})
         ELSE retransmit_loop(queue, i + 1, expired)

\* TcpRetransmissionQueue::retransmit(socket, connection)
retransmit(queue, expired) == retransmit_loop(queue, 1, expired)

RECURSIVE start_sending_loop(_, _, _, _, _)
\* the while loop of start_sending: segments of up to MAX_SEGMENT_SIZE bytes
\* are sent from SND.NXT on and pushed onto the retransmission queue
start_sending_loop(sb, queue, num_bytes_sent, num_bytes_to_send, is_zero_window_probe) ==
    IF ~(num_bytes_sent < num_bytes_to_send)
    THEN [send_buffer |-> sb, retransmission_queue |-> queue]
    ELSE LET offset == Min(num_bytes_to_send - num_bytes_sent, MAX_SEGMENT_SIZE)
             ack_packet == [sequence_number |-> sb.next, len |-> offset]
         IN  start_sending_loop([sb EXCEPT !.next = wrapping_add(@, offset)],
                                TcpRetransmissionQueue_push(queue, ack_packet,
                                                            is_zero_window_probe),
                                num_bytes_sent + offset, num_bytes_to_send,
                                is_zero_window_probe)

\* one turn of the loop of the sender thread after wait_to_send()
start_sending(sb, queue) ==
    IF sb.window_size[2] = 0
    THEN start_sending_loop(sb, queue, 0, 1, TRUE)
    ELSE start_sending_loop(sb, queue, 0, unsent_window_bytes(sb), FALSE)

\* the part of handle_data_ack_packet that looks at the acknowledgment: the
\* packet carries no data and the sequence number the receive buffer expects,
\* so that it is a valid segment and the receive window does not slide
handle_data_ack_packet_acknowledge(socket, acknowledgment_number, window_size) ==
    LET acked == TcpSendBuffer_acknowledge(socket.send_buffer, acknowledgment_number,
                                           window_size)
        queue == TcpRetransmissionQueue_acknowledge(socket.retransmission_queue,
                                                    acknowledgment_number)
    IN  IF acked.new_acknowledged_bytes[1] = "None"
        THEN [socket EXCEPT !.retransmission_queue = queue]
        ELSE LET sb == TcpSendBuffer_slide_window(acked.send_buffer,
                                                  acked.new_acknowledged_bytes[2])
             IN  [socket EXCEPT !.send_buffer = sb,
                                !.retransmission_queue = queue,
                                !.can_send = @ \/ unsent_window_bytes(sb) > 0
                                               \/ sb.window_size[2] = 0]

(***************************************************************************)
(* The sending side of an established connection: the application writes,  *)
(* the sender thread sends what the window allows, the peer acknowledges   *)
(* and advertises its window, and the retransmission thread retransmits    *)
(* the segments whose timeout has run out.  call_pc is the state of the    *)
(* socket, call_args the socket, call_ret what was observed: the last      *)
(* acknowledgment with the queue before and after, and the segment the     *)
(* connection was aborted on.                                              *)
(***************************************************************************)

\* SND.UNA at the start: far from the wrap and just before it
InitialSendSequenceNumbers == {1, SEQ_SPACE - 2}

\* the id of the socket in the socket table
SocketId == CHOOSE id \in {0} : TRUE

\* an established socket whose send buffer is empty: all it has sent, the
\* SYN included, is acknowledged, SND.UNA = SND.NXT = next, and the last
\* acknowledgment advertised window_size; written and bytes_sent count the
\* bytes written and sent from here on
Socket_established(next, window_size) ==
    [send_buffer |-> [TcpSendBuffer_new(next) EXCEPT
                          !.window_size = <<"Some", window_size>>],
     retransmission_queue |-> <<>>,
     can_send |-> FALSE,
     socket_table |-> {SocketId},
     written |-> 0,
     bytes_sent |-> 0]

TcpSendInit ==
    /\ call_pc = "Established"
    /\ \E next \in InitialSendSequenceNumbers, window_size \in {1, RECEIVE_WINDOW_SIZE} :
          call_args = Socket_established(next, window_size)
    /\ call_ret = [queue_before |-> <<>>, acknowledgment_number |-> 0,
                   queue_after |-> <<>>, exceeded |-> <<>>]
    /\ NtruIdle
    /\ OnionIdle
    /\ ChanIdle
    /\ NodeIdle

\* one turn of the loop of v_write with len bytes left to write
Tcp_v_write(len) ==
    /\ call_pc = "Established"
    /\ call_args.written + len <= MaxWrite
    /\ available_bytes(call_args.send_buffer) > 0
    /\ LET pushed == TcpSendBuffer_push(call_args.send_buffer, len)
       IN  call_args' = [call_args EXCEPT
               !.send_buffer = pushed.send_buffer,
               !.written = @ + pushed.bytes_written,
               !.can_send = @ \/ (pushed.bytes_written > 0
                                    /\ unsent_window_bytes(pushed.send_buffer) > 0)]
    /\ UNCHANGED <<call_pc, call_ret, ntruVars, onionVars, chanVars, nodeVars>>

\* the sender thread: wait_to_send() returns, the segments are sent and
\* can_send is set to false
Tcp_start_sending ==
    /\ call_args.can_send
    /\ LET sending == start_sending(call_args.send_buffer, call_args.retransmission_queue)
           bytes_sent == call_args.bytes_sent
                             + wrapping_sub(sending.send_buffer.next,
                                            call_args.send_buffer.next)
       IN  /\ bytes_sent <= MaxSent
           /\ call_args' = [call_args EXCEPT
                  !.send_buffer = sending.send_buffer,
                  !.bytes_sent = bytes_sent,
                  !.retransmission_queue = sending.retransmission_queue,
                  !.can_send = FALSE]
    /\ UNCHANGED <<call_pc, call_ret, ntruVars, onionVars, chanVars, nodeVars>>

\* handle_ack_packet in state Established on a packet of the peer that
\* acknowledges n of the bytes in flight and advertises window_size; the
\* right edge of the window the peer advertises does not move back
Tcp_handle_ack_packet(n, window_size) ==
    /\ call_pc = "Established"
    /\ n <= num_bytes_in_flight(call_args.send_buffer)
    /\ n + window_size >= call_args.send_buffer.window_size[2]
    /\ LET acknowledgment_number == wrapping_add(call_args.send_buffer.unacknowledged, n)
       IN  /\ call_args' = handle_data_ack_packet_acknowledge(call_args,
                                                              acknowledgment_number,
                                                              window_size)
           /\ call_ret' = [call_ret EXCEPT
                  !.queue_before = call_args.retransmission_queue,
                  !.acknowledgment_number = acknowledgment_number,
                  !.queue_after = call_args'.retransmission_queue]
    /\ UNCHANGED <<call_pc, ntruVars, onionVars, chanVars, nodeVars>>

\* the retransmission thread: retransmit(), when the RTO of the segments at
\* the positions has run out; on an abort the socket is closed and taken out
\* of the socket table
Tcp_retransmit(positions) ==
    /\ positions # {}
    /\ positions \subseteq 1..Len(call_args.retransmission_queue)
    /\ \A i \in positions :
          call_args.retransmission_queue[i].is_zero_window_probe =>
              call_args.retransmission_queue[i].retransmissions < MaxProbeRetransmissions
    /\ LET expired == {call_args.retransmission_queue[i].packet.sequence_number :
                          i \in positions}
           done == retransmit(call_args.retransmission_queue, expired)
       IN  /\ call_args' = [call_args EXCEPT
                  !.retransmission_queue = done.queue,
                  !.can_send = IF done.aborted THEN FALSE ELSE @,
                  !.socket_table = IF done.aborted THEN @ \ {SocketId} ELSE @]
           /\ call_pc' = IF done.aborted THEN "Closed" ELSE call_pc
           /\ call_ret' = [call_ret EXCEPT !.exceeded = @ \o done.exceeded]
    /\ UNCHANGED <<ntruVars, onionVars, chanVars, nodeVars>>

TcpSendNext ==
    \/ \E len \in 1..MaxWrite : Tcp_v_write(len)
    \/ Tcp_start_sending
    \/ \E n \in 0..SEND_BUFFER_SIZE, window_size \in 0..RECEIVE_WINDOW_SIZE :
          Tcp_handle_ack_packet(n, window_size)
    \/ \E positions \in SUBSET (1..MaxSent) : Tcp_retransmit(positions)

SpecTcpSend == TcpSendInit /\ [][TcpSendNext]_vars
(***************************************************************************)
(* The claims.                                                             *)
(***************************************************************************)

\* C1: decrypt(encrypt(m)) returns exactly m for every key pair, every message m
\* with 5*|m| <= N (the empty one included) and every blinding polynomial:
\* encrypt does not abort on such a message and decrypt gives m back.
C1_RoundTrip ==
    /\ (ntru_pc = "panicked" => ~(Len(plain) * 5 <= N))
    /\ (ntru_pc = "decrypted" => decrypted = plain)

\* C2: over a connection whose sender holds the receiver's NTRU public key and
\* whose onion key lists match, every (circuit id, message) handed to
\* Channel::send is written and comes out of the peer's Channel::recv as a packet
\* with the same circuit id, the same variant and the same payload; neither call
\* panics, for Create and Created with a 1024-bit key as for Relay payloads.
C2_SingleHopRoundTrip ==
    /\ chan_pc # "send_panicked"
    /\ chan_pc # "recv_panicked"
    /\ (chan_pc = "received" =>
           /\ received.header.circ_id = sent.header.circ_id
           /\ SameMessage(received.msg, sent.msg))

\* the key numbers of the layers of a wrapped buffer, outermost first
RECURSIVE LayerKeys(_, _)
LayerKeys(bytes, depth) ==
    IF depth = 0 THEN <<>>
    ELSE <<bytes[1] - RsaMark - 1000>>
         \o LayerKeys([j \in 1..(bytes[2] - RsaMark - 2000) |-> bytes[j + 2] - RsaMark],
                      depth - 1)

\* C3: when a payload has been wrapped under the forward onion keys [K1, ..., Kn],
\* the outermost layer of the result is the one under K1 and the innermost the one
\* under Kn, so that the private half of K1 alone removes the first layer.
C3_OutermostIsFirstHop ==
    (skin_pc = "wrapped" /\ skin_keys # <<>>) =>
        /\ LayerKeys(skin_enc, Len(skin_keys))
               = [i \in 1..Len(skin_keys) |-> RsaKeyId(skin_keys[i].n)]
        /\ rsa_decrypt(skin_keys[1], skin_enc).ok


\* the packets a relay has taken off its queue
Handled(r) == {relays[r].handled[i] : i \in 1..Len(relays[r].handled)}

\* the packets of a variant written on channel c of relay r
Written(r, c, variant) ==
    SelectSeq(relays[r].channels[c].written, LAMBDA p : p.msg.variant = variant)

\* C4: a relay that takes a Data cell on a circuit of its channel table handles
\* it (one layer removed, the rest forwarded or, at the last relay, delivered):
\* no relay stops or fails on the cell.
C4_DataCellHandled ==
    \A r \in RelayIds : \A h \in Handled(r) :
        (h.variant = "Data" /\ h.in_table) => ~h.panicked

TakenNow(r) ==
    IF Len(relays'[r].handled) = Len(relays[r].handled) + 1
    THEN {relays'[r].handled[Len(relays'[r].handled)]}
    ELSE {}

\* the packets taken in a step for which the owner of channel c appends a key
KeyCells(r, c) ==
    {h \in TakenNow(r) : h.circ_id = c /\ h.variant \in {"Created", "Extended"}}

C6_Step ==
    \A r \in RelayIds : \A c \in DOMAIN relays[r].channels :
        /\ c \in DOMAIN relays'[r].channels
        /\ relays'[r].channels[c].backward_onion_keys = relays[r].channels[c].backward_onion_keys
        /\ IF KeyCells(r, c) = {}
           THEN relays'[r].channels[c].forward_onion_keys
                    = relays[r].channels[c].forward_onion_keys
           ELSE \A h \in KeyCells(r, c) :
                    relays'[r].channels[c].forward_onion_keys
                        = Append(relays[r].channels[c].forward_onion_keys, h.body)

\* C6: the forward onion key list of a channel changes only by one key being
\* appended, exactly once for each Created or Extended cell its owner processes
\* and at no other time; the backward onion key list stays the list the channel
\* was created with.
C6_KeyListsAppendOnly == [][C6_Step]_vars

\* every connection the host attempted reached a listening relay
EveryRelayAnswers ==
    \A k \in 1..conns : \E r \in RelayIds :
        \/ k \in relays[r].accepted
        \/ \E i \in 1..Len(relays[r].backlog) : relays[r].backlog[i] = k

\* C7: with three relays registered and every relay answering, a call of create_circuit comes to return:
\* none of its steps, the mutex acquisitions included, waits forever, and the
\* call is not cut short.
C7_CreateCircuitReturns ==
    (directory.next_relay_id >= CIRCUIT_LENGTH /\ host_pc # "off" /\ EveryRelayAnswers) =>
        host_pc \notin {"deadlocked", "panicked"}

\* C8: a relay that has handled a Create cell for circuit c has recorded the
\* key of the payload as the backward onion key of c's channel and has sent
\* exactly one Created cell on that channel for each Create: no Create is left
\* unanswered.
C8_CreateAnswered ==
    \A r \in RelayIds : \A h \in Handled(r) :
        (h.variant = "Create" /\ h.in_table) =>
            /\ ~h.panicked
            /\ relays[r].channels[h.circ_id].backward_onion_keys # <<>>
            /\ Len(Written(r, h.circ_id, "Created"))
                   = Cardinality({i \in 1..Len(relays[r].handled) :
                                     /\ relays[r].handled[i].variant = "Create"
                                     /\ relays[r].handled[i].circ_id = h.circ_id})

\* C9: a relay that has handled an Extend cell on circuit c has opened a new
\* channel to the hop named in it and has sent a Create cell with the client's
\* key on the new channel; it does not stop on the cell.
C9_ExtendOpensChannel ==
    \A r \in RelayIds : \A h \in Handled(r) :
        (h.variant = "Extend" /\ h.in_table) =>
            /\ ~h.panicked
            /\ \E c \in DOMAIN relays[r].channels \ {h.circ_id} :
                  Len(Written(r, c, "Create")) = 1

\* C10: every connection a relay has accepted has a channel in the relay's
\* channel table, so that the table contains c whenever the relay handles a
\* Create or a Created cell for circuit c.
C10_AcceptedConnectionHasChannel ==
    \A r \in RelayIds :
        /\ \A conn \in relays[r].accepted :
              \E c \in DOMAIN relays[r].channels : relays[r].channels[c].connection = conn
        /\ \A h \in Handled(r) : h.variant \in {"Create", "Created"} => h.in_table


\* C11: for every byte sequence m with 5 * |m| <= N, whatever bytes it holds
\* and wherever, serialize accepts m and deserialize(serialize(m)) = m.
C11_CodecRoundTrip ==
    /\ (ntru_pc = "serialize_panicked" => ~(Len(plain) * 5 <= N))
    /\ (ntru_pc = "deserialized" => decrypted = plain)

\* coefficient k of a * b in (Z/mZ)[x]/(x^n - 1), by the definition of the
\* cyclic convolution: the sum of a_i * b_j over i + j = k (mod n), for two
\* vectors of n coefficients, summed from index i upward
RECURSIVE RingMulCoeff(_, _, _, _, _, _)
RingMulCoeff(a, b, m, n, k, i) ==
    IF i = n THEN 0
    ELSE (a[i + 1] * b[((k - i) % n) + 1] + RingMulCoeff(a, b, m, n, k, i + 1)) % m

\* a * b is congruent to 1 in (Z/mZ)[x]/(x^n - 1)
RingInverses(a, b, m, n) ==
    \A k \in 0..(n - 1) : RingMulCoeff(a, b, m, n, k, 0) = (IF k = 0 THEN 1 ELSE 0)

\* a is invertible in (Z/mZ)[x]/(x^n - 1)
RingInvertible(a, m, n) ==
    \E s \in Vectors(0..(m - 1), n) : RingInverses(a, s, m, n)

\* a polynomial of fewer than n coefficients, filled up with zeros
Padded(p, n) == [i \in 1..n |-> IF i <= Len(p) THEN p[i] ELSE 0]

\* the call returned Ok(s) with a * s congruent to 1
InverseReturned ==
    /\ call_ret.ok
    /\ Len(call_ret.val) <= call_args.n
    /\ RingInverses(call_args.self, Padded(call_ret.val, call_args.n),
                    call_args.m, call_args.n)

IsPrime(m) == m > 1 /\ \A k \in 2..(m - 1) : m % k # 0

CountOf(p, v) == Cardinality({i \in 1..Len(p) : p[i] = v})

\* p has exactly ones coefficients +1 and neg_ones coefficients -1, all others 0
IsTernary(p, ones, neg_ones) ==
    /\ CountOf(p, 1) = ones
    /\ CountOf(p, -1) = neg_ones
    /\ CountOf(p, 0) = Len(p) - ones - neg_ones

\* a key pair has been generated
Keyed == ntru_pc \notin {"off", "start", "codec_start", "serialized",
                         "serialize_panicked", "deserialized"}

\* C13: every private key returned by key generation has f with exactly d + 1
\* coefficients +1 and d coefficients -1, g with exactly d of each, all others
\* 0, f * F_p congruent to 1 in (Z/pZ)[x]/(x^N - 1) and f * F_q congruent to
\* 1 in (Z/qZ)[x]/(x^N - 1).
C13_PrivateKeyInvariants ==
    Keyed =>
        /\ IsTernary(keypair.private.f, D + 1, D)
        /\ IsTernary(keypair.private.g, D, D)
        /\ RingInverses(Padded(keypair.private.f, N), Padded(keypair.private.f_p, N), P, N)
        /\ RingInverses(Padded(keypair.private.f, N), Padded(keypair.private.f_q, N), Q, N)

\* a key pair has been generated, with an f that is not trimmed to nothing
C13_Witness ==
    /\ ntru_pc = "keyed"
    /\ CountOf(keypair.private.f, 1) = D + 1
    /\ Len(keypair.private.f_q) > 1

\* C14: the public key polynomial h equals F_q * g reduced mod q in canonical
\* form: h is congruent to F_q * g and every coefficient of h lies in [0, q).
C14_PublicKeyCanonical ==
    Keyed =>
        /\ \A k \in 0..(N - 1) :
              CoeffOr0(keypair.public.h, k) % Q
                  = RingMulCoeff(Padded(keypair.private.f_q, N),
                                 Padded(keypair.private.g, N), Q, N, k, 0)
        /\ \A i \in 1..Len(keypair.public.h) :
              keypair.public.h[i] >= 0 /\ keypair.public.h[i] < Q

\* C14, amended: h is congruent to F_q * g mod q; NtruPublicKey::new does not
\* reduce it, its coefficients are those of the integer product and lie
\* between -d * (q - 1) and d * (q - 1).
C14_PublicKeyCongruent ==
    Keyed =>
        /\ \A k \in 0..(N - 1) :
              CoeffOr0(keypair.public.h, k) % Q
                  = RingMulCoeff(Padded(keypair.private.f_q, N),
                                 Padded(keypair.private.g, N), Q, N, k, 0)
        /\ \A i \in 1..Len(keypair.public.h) :
              keypair.public.h[i] >= -D * (Q - 1) /\ keypair.public.h[i] <= D * (Q - 1)

\* a public key with a coefficient outside [0, q) has been generated
C14_Witness ==
    /\ ntru_pc = "keyed"
    /\ \E i \in 1..Len(keypair.public.h) :
          keypair.public.h[i] < 0 \/ keypair.public.h[i] >= Q

Arrived(c) ==
    [i \in 1..Len(SelectSeq(relays[ReaderRelay].handled, LAMBDA h : h.circ_id = c)) |->
        [variant |-> SelectSeq(relays[ReaderRelay].handled,
                               LAMBDA h : h.circ_id = c)[i].variant,
         body |-> SelectSeq(relays[ReaderRelay].handled,
                            LAMBDA h : h.circ_id = c)[i].body]]
    \o [i \in 1..Len(SelectSeq(relays[ReaderRelay].inbox,
                               LAMBDA p : p.header.circ_id = c)) |->
           SelectSeq(relays[ReaderRelay].inbox, LAMBDA p : p.header.circ_id = c)[i].msg]

\* the well-formed cells among the cells the reader of channel c has read
ReadGood(c) ==
    [i \in 1..Len(SelectSeq(SubSeq(sent[c], 1, rx[c].taken),
                            LAMBDA w : w.kind = "good")) |->
        SelectSeq(SubSeq(sent[c], 1, rx[c].taken), LAMBDA w : w.kind = "good")[i].msg]

\* the packets of every channel are at the packet handler in the order in
\* which the peer wrote their cells
ArrivedInOrder ==
    chan_pc = "readers" => \A c \in NodeCircIds : Arrived(c) = ReadGood(c)

\* the Data cells of circuit c the packet handler has taken, and those it has
\* handled
DataTaken(c) ==
    SelectSeq(relays[ReaderRelay].handled,
              LAMBDA h : h.circ_id = c /\ h.variant = "Data")

DataHandled(c) ==
    SelectSeq(relays[ReaderRelay].handled,
              LAMBDA h : h.circ_id = c /\ h.variant = "Data" /\ ~h.panicked)

C17_MalformedCellDropped ==
    chan_pc = "readers" =>
        \A c \in NodeCircIds :
            /\ rx[c].reader = "from_be_bytes_panicked"
                  => sent[c][rx[c].taken].kind = "good"
            /\ (rx[c].taken > 0 /\ sent[c][rx[c].taken].kind = "bad")
                  => rx[c].reader = "running"

\* C18: a channel whose connection is at its end is removed from the channel
\* table of the node, rather than its reader stopping with the channel left
\* in the table.
C18_EofRemovesChannel ==
    chan_pc = "readers" =>
        \A c \in NodeCircIds :
            (connection[c].eof /\ rx[c].reader # "running"
                 /\ ~Reader_frame_ready(connection[c].bytes))
                => c \notin DOMAIN relays[ReaderRelay].channels

\* the relays chosen for the circuit
Chosen == call_ret

C19_ConstructionEnds ==
    (host_pc = "line_96") ~> (host_pc \in {"returned", "gave_up"})

C22_KeyBytesRoundTrip ==
    call_pc = "deserialized" =>
        /\ Len(call_ret.buf) = 4 * Len(call_args.h)
        /\ call_ret.key.ok /\ call_ret.key.val = call_args
        /\ call_ret.poly.ok /\ call_ret.poly.val = call_args.h

\* a polynomial with a negative coefficient and a trailing zero coefficient
\* has made the round trip
C22_Witness ==
    /\ call_pc = "deserialized"
    /\ Len(call_args.h) = MaxKeyLen
    /\ call_args.h[1] < 0
    /\ call_args.h[MaxKeyLen] = 0

\* c is a unit mod m
UnitMod(c, m) == \E x \in 1..m : (c * x) % m = 1

\* a is congruent to d * q + r, coefficient by coefficient mod m, in the ring
\* of size n
DivisionHolds(a, d, q, r, m, n) ==
    \A k \in 0..(n - 1) :
        (CoeffOr0(a, k)
           - RingMulCoeff(Padded(d, n), Padded(q, n), m, n, k, 0)
           - CoeffOr0(r, k)) % m = 0

RECURSIVE WrapCoeff(_, _, _)
\* the coefficient of x^k of p in the ring of size n: the sum of the
\* coefficients of x^k, x^(k+n), x^(k+2n), ...
WrapCoeff(p, n, k) ==
    IF k >= Len(p) THEN 0 ELSE p[k + 1] + WrapCoeff(p, n, k + n)

\* p as an element of the ring of size n
Wrapped(p, n) == [k \in 1..n |-> WrapCoeff(p, n, k - 1)]

\* a * s + b * t is congruent to d mod m in the ring of size n
Bezout(a, s, b, t, d, m, n) ==
    \A k \in 0..(n - 1) :
        (RingMulCoeff(Wrapped(a, n), Wrapped(s, n), m, n, k, 0)
           + RingMulCoeff(Wrapped(b, n), Wrapped(t, n), m, n, k, 0)
           - WrapCoeff(d, n, k)) % m = 0

\* C24: whenever ConvPoly::extended_gcd(a, b, m, N) returns (d, s, t), a * s +
\* b * t is congruent to d mod m in the ring of size N.  (That the call comes
\* to an end on every a and b not both zero shows in every call of the
\* machine having its successor state.)
C24_BezoutIdentity ==
    (call_pc = "extended_gcd_returned" /\ call_ret.ok) =>
        Bezout(call_args.a, call_ret.s, call_args.b, call_ret.t, call_ret.r,
               call_args.m, call_args.n)

\* a gcd has been returned with neither Bezout coefficient zero, for an
\* argument whose degree is not below the size of the ring
C24_Witness ==
    /\ call_pc = "extended_gcd_returned"
    /\ call_ret.ok
    /\ ~is_zero(call_ret.s)
    /\ ~is_zero(call_ret.t)
    /\ deg(call_args.a) >= call_args.n
    /\ deg(call_args.b) >= 1

\* C25: for every modulus m > 0 and every integer a, center_lift(a, m) is
\* congruent to a mod m and lies in (-m/2, m/2], the midpoint of an even
\* modulus lifting to +m/2; and center_lift(center_lift(c, m) mod m, m) is
\* center_lift(c, m).
C25_CenterLift ==
    /\ call_pc \in {"center_lift_returned", "center_lift_twice"} =>
          /\ (call_ret.lift - call_args.a) % call_args.m = 0
          /\ 2 * call_ret.lift > -call_args.m
          /\ 2 * call_ret.lift <= call_args.m
          /\ 2 * (call_args.a % call_args.m) = call_args.m
                => 2 * call_ret.lift = call_args.m
    /\ call_pc = "center_lift_twice" => call_ret.again = call_ret.lift

\* the midpoint of an even modulus, given as a negative integer, has been
\* lifted twice
C25_Witness ==
    /\ call_pc = "center_lift_twice"
    /\ call_args.a < 0
    /\ 2 * (call_args.a % call_args.m) = call_args.m
    /\ call_ret.lift > 0

\* the greatest common divisor of the positive integers a and b
RECURSIVE Gcd(_, _)
Gcd(a, b) == IF b = 0 THEN a ELSE Gcd(b, a % b)

\* C26: for every modulus m > 0 and every integer a, inverse(a, m) returns
\* Ok(x) with 0 <= x < m and a * x congruent to 1 mod m exactly when a is not
\* congruent to 0 mod m and gcd(a, m) = 1, and an error in every other case.
C26_IntegerInverse ==
    call_pc = "int_inverse_returned" =>
        IF call_args.a % call_args.m # 0 /\ Gcd(call_args.m, call_args.a % call_args.m) = 1
        THEN /\ call_ret.ok
             /\ call_ret.val >= 0
             /\ call_ret.val < call_args.m
             /\ (call_args.a * call_ret.val - 1) % call_args.m = 0
        ELSE ~call_ret.ok

\* C26, amended: the same for every modulus m > 1; for m = 1, where every
\* integer is congruent to 0, inverse(a, 1) returns Ok(0) for every a other
\* than 0 and an error for a = 0.
C26_IntegerInverse_ModulusAboveOne ==
    call_pc = "int_inverse_returned" =>
        IF call_args.m = 1
        THEN IF call_args.a = 0 THEN ~call_ret.ok
             ELSE call_ret.ok /\ call_ret.val = 0
        ELSE IF call_args.a % call_args.m # 0
                  /\ Gcd(call_args.m, call_args.a % call_args.m) = 1
             THEN /\ call_ret.ok
                  /\ call_ret.val >= 0
                  /\ call_ret.val < call_args.m
                  /\ (call_args.a * call_ret.val - 1) % call_args.m = 0
             ELSE ~call_ret.ok

\* a negative integer has been inverted for a composite modulus
C26_Witness ==
    /\ call_pc = "int_inverse_returned"
    /\ call_args.a = -2
    /\ call_args.m = 9
    /\ call_ret.ok
    /\ call_ret.val = 4


\* C27: for every n > 0, every num_ones and num_neg_ones with
\* num_ones + num_neg_ones <= n and every permutation drawn, the polynomial
\* ternary_polynomial returns has a coefficient vector of length n holding
\* exactly num_ones entries 1, exactly num_neg_ones entries -1 and 0 elsewhere.
C27_TernaryLengthAndCounts ==
    call_pc = "ternary_polynomial_returned" =>
        /\ Len(call_ret) = call_args.n
        /\ CountOf(call_ret, 1) = call_args.num_ones
        /\ CountOf(call_ret, -1) = call_args.num_neg_ones
        /\ \A k \in 1..Len(call_ret) : call_ret[k] \in {-1, 0, 1}

\* the part of C27 that does not depend on the length of the vector
C27_TernaryCounts ==
    call_pc = "ternary_polynomial_returned" =>
        /\ Len(call_ret) <= call_args.n
        /\ CountOf(call_ret, 1) = call_args.num_ones
        /\ CountOf(call_ret, -1) = call_args.num_neg_ones
        /\ \A k \in 1..Len(call_ret) : call_ret[k] \in {-1, 0, 1}

\* C28: after any sequence of registrations, concurrent ones included, the
\* registered relays have pairwise distinct ids and pairwise distinct ports
\* (over the calls that returned and over the entries of the directory), and
\* the lookup of an assigned id returns the port and the identity public key
\* registered under it.
C28_DistinctRegistrations ==
    /\ \A j, k \in 1..Len(call_ret.log) :
          j # k => /\ call_ret.log[j].id # call_ret.log[k].id
                   /\ call_ret.log[j].port # call_ret.log[k].port
    /\ \A i, j \in DOMAIN directory.relays :
          i # j => directory.relays[i].port # directory.relays[j].port
    /\ \A k \in 1..Len(call_ret.log) :
          get_relay_info(directory, call_ret.log[k].id)
              = <<"Some", [port |-> call_ret.log[k].port,
                           id_key_pub |-> call_ret.log[k].id_key_pub]>>
    /\ call_ret.found # <<>> =>
          \E k \in 1..Len(call_ret.log) :
              call_ret.found = <<call_ret.log[k].id,
                                 <<"Some", [port |-> call_ret.log[k].port,
                                            id_key_pub |-> call_ret.log[k].id_key_pub]>> >>

\* MaxRelays relays are registered, not in the order of their ports, and the
\* relay with id 1 has been looked up
C28_Witness ==
    /\ Len(call_ret.log) = MaxRelays
    /\ \E j, k \in 1..Len(call_ret.log) :
          call_ret.log[j].id < call_ret.log[k].id /\ call_ret.log[j].port > call_ret.log[k].port
    /\ call_ret.found # <<>>
    /\ call_ret.found[1] = 1

\* C29: two convolution polynomials whose coefficient sequences differ only
\* by trailing zero coefficients compare equal, and the test that a
\* polynomial is the constant 1 gives the same answer for both.
C29_EqualityIgnoresTrailingZeros ==
    (call_pc = "eq_returned" /\ trim(call_args.a) = trim(call_args.b)) =>
        /\ call_ret.eq
        /\ call_ret.a_ne_one = call_ret.b_ne_one

\* the equality the code has: that of the coefficient vectors as they are
C29_EqualityOfVectors ==
    call_pc = "eq_returned" => (call_ret.eq <=> call_args.a = call_args.b)

\* the sum of the value of digits[5 - i] times 3^i over i = 0..4, the value
\* of a digit given by Value
DigitSum(digits, Value(_)) ==
    Value(digits[5]) + 3 * Value(digits[4]) + 9 * Value(digits[3])
        + 27 * Value(digits[2]) + 81 * Value(digits[1])

DigitItself(d) == d

DigitTwoForMinusOne(d) == IF d = -1 THEN 2 ELSE d

C31_NoLockDuringIo ==
    [][conns' # conns => /\ host_locks.channels.owner = "none"
                         /\ host_locks.circuit_table.owner = "none"]_vars

\* N of the reference parameters (ntru.rs: const N: usize = 503)
N_REFERENCE == 503

\* C32: with the reference parameters every buffer that Message::to_be_bytes
\* hands to the NTRU layer holds at most N / 5 bytes, for every message
\* handed to Channel::send (Create, Created and the Relay payloads once the
\* classical skins are on), so that send does not fail on the length
\* precondition of encrypt.
C32_BufferFitsNtru ==
    chan_pc \in {"sent", "send_panicked", "received", "recv_panicked"} =>
        (Message_buf(sent.msg, tx.forward_onion_keys).ok =>
            5 * Len(Message_buf(sent.msg, tx.forward_onion_keys).val) <= N_REFERENCE)

\* C33: a Channel::send on a channel whose reader thread is suspended in the
\* transport read completes without waiting for an inbound cell: while the
\* reader is blocked in read_exact with no whole cell on the connection, it
\* does not hold the mutex of the connection that send is about to lock.
C33_SendNotBehindReader ==
    (chan_pc = "line_43" /\ rx.reader = "line_52"
        /\ ~Reader_frame_ready(connection.inbound)) =>
            connection.owner # "reader"

\* C34: whatever the initial sequence number (the wrap of the sequence space
\* included) and under loss, duplication, reordering, retransmission and
\* partially overlapping segments, the bytes the successive v_read calls
\* returned, one after the other, are a prefix of the stream the peer
\* wrote, and no v_read fails.
C34_ReadIsPrefixOfStream ==
    call_pc \in {"established", "v_read_panicked"} =>
        /\ call_pc = "established"
        /\ Len(call_ret) <= StreamLen
        /\ call_ret = SubSeq(Stream, 1, Len(call_ret))

\* C35: deserializing the serialization of a private key gives back its four
\* polynomials f, f_p, f_q and g
C35_PrivateKeyRoundTrip ==
    call_pc = "private_deserialized" =>
        /\ call_ret.ok
        /\ trim(call_ret.val.f) = trim(call_args.k.f)
        /\ trim(call_ret.val.f_p) = trim(call_args.k.f_p)
        /\ trim(call_ret.val.f_q) = trim(call_args.k.f_q)
        /\ trim(call_ret.val.g) = trim(call_args.k.g)

\* C36: after any inserts and removes used_circuit_ids is the set of the
\* circuit ids some destination port maps to, and no operation panics
C36_UsedIdsAreMappedIds ==
    call_pc \in {"table", "remove_panicked"} =>
        /\ call_pc = "table"
        /\ circuit_table.used_circuit_ids =
               {circuit_table.circuits[d] : d \in DOMAIN circuit_table.circuits}

\* C37: every call of get_random_relay(exclude_list) returns: None when the
\* directory is empty or every registered relay is in exclude_list (the
\* caller's unwrap then panics), a registered relay otherwise
C37_RandomRelayReturns ==
    (call_pc = "choosing") ~> (call_pc \in {"chosen", "unwrap_panicked"})

\* s comes before a in the sequence space: a is ahead of s by less than half
\* of the space
Precedes(s, a) == wrapping_sub(a, s) \in 1..(SEQ_SPACE \div 2 - 1)

\* C38: an ACK with acknowledgment number a removes from the retransmission
\* queue exactly the segments whose sequence number precedes a in sequence
\* space, and the others keep their order, whatever the initial sequence
\* number, also across the wrap of the sequence numbers
C38_AckRemovesPrecedingSegments ==
    call_pc \in {"Established", "Closed"} =>
        call_ret.queue_after =
            SelectSeq(call_ret.queue_before,
                LAMBDA segment : ~Precedes(segment.packet.sequence_number,
                                           call_ret.acknowledgment_number))

\* C39: in every state of an established connection the number of bytes in
\* flight, SND.NXT - SND.UNA in sequence space, is at most the window size
\* the receiver advertised last (SND.WND)
C39_InFlightWithinWindow ==
    call_pc = "Established" =>
        num_bytes_in_flight(call_args.send_buffer)
            <= unwrap_or_0(call_args.send_buffer.window_size)

\* C40: retransmit hands a segment that is no zero-window probe to
\* send_tcp_packet at most MAX_RETRANSMISSIONS times, and the connection is
\* aborted on a segment at that limit: the retransmission queue is empty, the
\* state of the socket is Closed and the socket is out of the socket table
C40_RetransmissionsBounded ==
    call_pc \in {"Established", "Closed"} =>
        /\ \A i \in 1..Len(call_args.retransmission_queue) :
              ~call_args.retransmission_queue[i].is_zero_window_probe =>
                  call_args.retransmission_queue[i].retransmissions <= MAX_RETRANSMISSIONS
        /\ \A i \in 1..Len(call_ret.exceeded) :
              call_ret.exceeded[i].retransmissions <= MAX_RETRANSMISSIONS
        /\ call_ret.exceeded # <<>> =>
              /\ call_args.retransmission_queue = <<>>
              /\ call_pc = "Closed"
              /\ call_args.socket_table = {}
====
